---- MODULE Spec2Model ----
(***************************************************************************)
(* A model of the RFP processing core: the requirement matcher             *)
(* (app/services/matching/matcher.py), the selection policy and the        *)
(* workflow graph (app/core/graph.py), the agent orchestrator              *)
(* (app/agents/orchestrator.py), the pricing calculator                    *)
(* (app/services/pricing/calculator.py), the formatter                     *)
(* (app/output/formatter.py) and the pipeline entry point                  *)
(* (app/pipelines/rfp_pipeline.py).                                        *)
(*                                                                         *)
(* Strings are TLA+ strings; scores are kept in hundredths (the code       *)
(* rounds match_score to two decimals), money in whole currency units and  *)
(* markup amounts in hundredths of a unit.                                 *)
(***************************************************************************)
EXTENDS Integers, Sequences, FiniteSets, TLC

\* ------------------------------------------------------------------------
\* Bounds of the model
\* ------------------------------------------------------------------------

\* Longest requirement list of an RFP.
MaxReqs == 3

\* Longest product catalog.
MaxProducts == 3

\* ------------------------------------------------------------------------
\* Python string primitives used by the matcher and the selection policy
\* ------------------------------------------------------------------------

\* The letters str.lower() changes, each with its lower-case form.
UpperToLower ==
    ("A" :> "a") @@ ("B" :> "b") @@ ("C" :> "c") @@ ("D" :> "d") @@ ("E" :> "e") @@ ("F" :> "f") @@
    ("G" :> "g") @@ ("H" :> "h") @@ ("I" :> "i") @@ ("J" :> "j") @@ ("K" :> "k") @@ ("L" :> "l") @@
    ("M" :> "m") @@ ("N" :> "n") @@ ("O" :> "o") @@ ("P" :> "p") @@ ("Q" :> "q") @@ ("R" :> "r") @@
    ("S" :> "s") @@ ("T" :> "t") @@ ("U" :> "u") @@ ("V" :> "v") @@ ("W" :> "w") @@ ("X" :> "x") @@
    ("Y" :> "y") @@ ("Z" :> "z")

\* str.lower() on one character.
LowerChar(c) == IF c \in DOMAIN UpperToLower THEN UpperToLower[c] ELSE c

RECURSIVE Lower(_)
\* str.lower()
Lower(s) ==
    IF Len(s) = 0 THEN ""
    ELSE LowerChar(SubSeq(s, 1, 1)) \o Lower(SubSeq(s, 2, Len(s)))

\* Python's `needle in hay` on strings.
Contains(hay, needle) ==
    \E i \in 0..(Len(hay) - Len(needle)) : SubSeq(hay, i + 1, i + Len(needle)) = needle

RECURSIVE SplitFrom(_, _, _)
\* str.split() helper: the words of s from position i on, cur being the word
\* collected so far.
SplitFrom(s, i, cur) ==
    IF i > Len(s) THEN (IF cur = "" THEN << >> ELSE << cur >>)
    ELSE IF SubSeq(s, i, i) = " "
         THEN (IF cur = "" THEN << >> ELSE << cur >>) \o SplitFrom(s, i + 1, "")
         ELSE SplitFrom(s, i + 1, cur \o SubSeq(s, i, i))

\* str.split(): split on runs of whitespace, no empty words.
Split(s) == SplitFrom(s, 1, "")

RECURSIVE Join(_, _)
\* sep.join(parts)
Join(parts, sep) ==
    IF Len(parts) = 0 THEN ""
    ELSE IF Len(parts) = 1 THEN parts[1]
    ELSE parts[1] \o sep \o Join(Tail(parts), sep)

\* The elements of a sequence, as a set.
Range(seq) == { seq[i] : i \in 1..Len(seq) }

\* seq[:n]
Take(seq, n) == SubSeq(seq, 1, IF Len(seq) < n THEN Len(seq) ELSE n)

\* [f(x) for x in seq]
MapLower(seq) == [i \in 1..Len(seq) |-> Lower(seq[i])]

\* ------------------------------------------------------------------------
\* matcher.py
\* ------------------------------------------------------------------------

\* common_words of _keyword_match
common_words == {"the", "and", "or", "for", "with", "support", "system", "a", "an"}

\* Shortest word length the fallback tier does not consider (len(word) > 3).
FallbackWordLen == 3

\* _keyword_match(requirement, spec), both already lower-cased.
KeywordMatch(requirement, spec) ==
    IF Contains(spec, requirement) \/ Contains(requirement, spec) THEN TRUE
    ELSE LET req_words == Range(Split(requirement)) \ common_words
             spec_words == Range(Split(spec)) \ common_words
             overlap == req_words \cap spec_words
             min_overlap == IF Cardinality(req_words) <= 2 THEN 1 ELSE 2
         IN Cardinality(overlap) >= min_overlap

\* The first test of _keyword_match: `requirement in spec or spec in requirement`.
SubstringTier(requirement, spec) ==
    Contains(spec, requirement) \/ Contains(requirement, spec)

\* The second test of _keyword_match: the overlap of the significant words.
TokenOverlapTier(requirement, spec) ==
    LET req_words == Range(Split(requirement)) \ common_words
        spec_words == Range(Split(spec)) \ common_words
    IN Cardinality(req_words \cap spec_words) >=
           (IF Cardinality(req_words) <= 2 THEN 1 ELSE 2)

\* The least element of a non-empty set of indices, 0 for the empty set.
FirstOf(hits) == IF hits = {} THEN 0 ELSE CHOOSE i \in hits : \A j \in hits : i <= j

\* A variant of the spec loop that runs one tier over all specs before it
\* tries the next: the first spec matching by substring, and only when there
\* is none the first spec matching by word overlap.
FirstKeywordSpecByTier(requirement_lower, specs) ==
    LET substring == { i \in 1..Len(specs) : SubstringTier(requirement_lower, Lower(specs[i])) }
        overlap == { i \in 1..Len(specs) : TokenOverlapTier(requirement_lower, Lower(specs[i])) }
    IN IF substring # {} THEN FirstOf(substring) ELSE FirstOf(overlap)

\* Index of the first spec the keyword tiers match, 0 if none
\* (the `for spec in product.specs` loop with its break).
FirstKeywordSpec(requirement_lower, specs) ==
    LET hits == { i \in 1..Len(specs) : KeywordMatch(requirement_lower, Lower(specs[i])) }
    IN IF hits = {} THEN 0 ELSE CHOOSE i \in hits : \A j \in hits : i <= j

\* Index of the spec the fallback tier attributes the match to, 0 if none:
\* the first word longer than 3 characters that occurs in the joined specs
\* text, attributed to the first spec containing it.
FirstFallbackSpec(requirement_lower, specs) ==
    LET req_words == Split(requirement_lower)
        product_specs_text == Join(MapLower(specs), " ")
        specOf(word) ==
            LET hits == { i \in 1..Len(specs) : Contains(Lower(specs[i]), word) }
            IN IF hits = {} THEN 0 ELSE CHOOSE i \in hits : \A j \in hits : i <= j
        good == { k \in 1..Len(req_words) :
                    /\ Len(req_words[k]) > FallbackWordLen
                    /\ Contains(product_specs_text, req_words[k])
                    /\ specOf(req_words[k]) # 0 }
    IN IF good = {} THEN 0
       ELSE specOf(req_words[CHOOSE k \in good : \A l \in good : k <= l])

\* A variant of the loop body that runs the fallback tier even when the
\* keyword tiers already matched (the `if not matched:` guard dropped).
ClassifyOneUnguarded(acc, requirement, specs) ==
    LET rl == Lower(requirement)
        kw == FirstKeywordSpec(rl, specs)
        fb == FirstFallbackSpec(rl, specs)
        a1 == IF kw # 0 THEN Append(acc.matched_specs, specs[kw]) ELSE acc.matched_specs
        a2 == IF fb # 0 THEN Append(a1, specs[fb]) ELSE a1
    IN [matched_specs |-> a2,
        missing_requirements |->
            IF kw = 0 /\ fb = 0 THEN Append(acc.missing_requirements, requirement)
            ELSE acc.missing_requirements]

\* One iteration of `for requirement in rfp.requirements` of _calculate_match:
\* acc holds the lists matched_specs and missing_requirements built so far.
ClassifyOne(acc, requirement, specs) ==
    LET rl == Lower(requirement)
        kw == FirstKeywordSpec(rl, specs)
        fb == IF kw # 0 THEN 0 ELSE FirstFallbackSpec(rl, specs)
    IN IF kw # 0
       THEN [acc EXCEPT !.matched_specs = Append(@, specs[kw])]
       ELSE IF fb # 0
            THEN [acc EXCEPT !.matched_specs = Append(@, specs[fb])]
            ELSE [acc EXCEPT !.missing_requirements = Append(@, requirement)]

RECURSIVE ClassifyFrom(_, _, _, _)
ClassifyFrom(acc, requirements, k, specs) ==
    IF k > Len(requirements) THEN acc
    ELSE ClassifyFrom(ClassifyOne(acc, requirements[k], specs), requirements, k + 1, specs)

\* The matching loop of _calculate_match: the lists matched_specs (before
\* duplicates are removed) and missing_requirements after the last requirement.
Classify(requirements, specs) ==
    ClassifyFrom([matched_specs |-> << >>, missing_requirements |-> << >>],
                 requirements, 1, specs)

\* round(x, 2) of the ratio num/den, in hundredths: the nearest hundredth,
\* an exact tie going to the even one.
RoundHundredths(num, den) ==
    LET q == (100 * num) \div den
        r == (100 * num) % den
    IN IF 2 * r < den THEN q
       ELSE IF 2 * r > den THEN q + 1
       ELSE IF q % 2 = 0 THEN q ELSE q + 1

\* A variant of the score that counts the missing requirements instead of
\* the matched ones.
MatchScoreOfMissing(total_requirements, missing_count) ==
    IF total_requirements > 0
    THEN RoundHundredths(missing_count, total_requirements)
    ELSE 0

\* match_score of _calculate_match, in hundredths.
MatchScore(total_requirements, missing_count) ==
    IF total_requirements > 0
    THEN RoundHundredths(total_requirements - missing_count, total_requirements)
    ELSE 0

\* _calculate_match(rfp, product)
CalculateMatch(rfp, product) ==
    LET c == Classify(rfp.requirements, product.specs)
    IN [product_id |-> product.id,
        product_name |-> product.name,
        match_score |-> MatchScore(Len(rfp.requirements), Len(c.missing_requirements)),
        matched_specs |-> Range(c.matched_specs),
        missing_requirements |-> c.missing_requirements]

\* A variant of the insertion that keeps the input order: no sort at all.
InsertAtEnd(sorted, m) == Append(sorted, m)

\* A variant of the insertion that goes before the results of equal score.
InsertBeforeEqual(sorted, m) ==
    LET ahead == { i \in 1..Len(sorted) : sorted[i].match_score > m.match_score }
        k == Cardinality(ahead)
    IN SubSeq(sorted, 1, k) \o << m >> \o SubSeq(sorted, k + 1, Len(sorted))

\* The stable descending sort of `matches.sort(key=..., reverse=True)` takes
\* one result at a time: it goes behind every result already placed whose
\* score is greater or equal, so equal scores keep their input order.
InsertByScore(sorted, m) ==
    LET ahead == { i \in 1..Len(sorted) : sorted[i].match_score >= m.match_score }
        k == Cardinality(ahead)
    IN SubSeq(sorted, 1, k) \o << m >> \o SubSeq(sorted, k + 1, Len(sorted))

RECURSIVE SortByScoreFrom(_, _, _)
SortByScoreFrom(sorted, matches, k) ==
    IF k > Len(matches) THEN sorted
    ELSE SortByScoreFrom(InsertByScore(sorted, matches[k]), matches, k + 1)

\* matches.sort(key=lambda x: x.match_score, reverse=True)
SortByScore(matches) == SortByScoreFrom(<< >>, matches, 1)

\* A variant of the filter that drops a score equal to the threshold.
AboveThreshold(match_score, threshold) == match_score > threshold

\* `match_result.match_score >= threshold`
MeetsThreshold(match_score, threshold) == match_score >= threshold

RECURSIVE FilterFrom(_, _, _, _)
\* The `for product in products` loop of match_products_to_rfp.
FilterFrom(rfp, products, k, threshold) ==
    IF k > Len(products) THEN << >>
    ELSE LET match_result == CalculateMatch(rfp, products[k])
         IN (IF MeetsThreshold(match_result.match_score, threshold)
             THEN << match_result >> ELSE << >>)
            \o FilterFrom(rfp, products, k + 1, threshold)

\* ------------------------------------------------------------------------
\* loader.py: the configuration and the pricing tests, as loaded
\* ------------------------------------------------------------------------

\* Default of config.get("matching_threshold", 0.3), in hundredths.
DefaultThreshold == 30

\* Default of config.get("markup_percentage", 25).
DefaultMarkup == 25

\* Default of config.get("default_tests", [...]).
DefaultTests == << "security_audit", "integration_test" >>

\* What load_config returns when the file is missing, is not valid JSON or
\* cannot be read.
DefaultConfig ==
    [shape |-> "dict",
     matching_threshold |-> [t |-> "num", v |-> DefaultThreshold],
     markup_percentage |-> [t |-> "num", v |-> DefaultMarkup],
     default_tests |-> [t |-> "list", v |-> DefaultTests]]

\* What a readable config.json may hold: the default values; every key set
\* (threshold 0.5, markup 20); no key set; only a threshold of 0, which
\* filters nothing out; a matching_threshold that is not a number
\* (load_config validates nothing); JSON that is not an object.
ConfigFiles ==
    { DefaultConfig,
      [shape |-> "dict",
       matching_threshold |-> [t |-> "num", v |-> 50],
       markup_percentage |-> [t |-> "num", v |-> 20],
       default_tests |-> [t |-> "list", v |-> << "security_audit", "penetration_test" >>]],
      [shape |-> "dict",
       matching_threshold |-> [t |-> "absent", v |-> 0],
       markup_percentage |-> [t |-> "absent", v |-> 0],
       default_tests |-> [t |-> "absent", v |-> << >>]],
      [shape |-> "dict",
       matching_threshold |-> [t |-> "num", v |-> 0],
       markup_percentage |-> [t |-> "absent", v |-> 0],
       default_tests |-> [t |-> "absent", v |-> << >>]],
      [shape |-> "dict",
       matching_threshold |-> [t |-> "str", v |-> 0],
       markup_percentage |-> [t |-> "num", v |-> DefaultMarkup],
       default_tests |-> [t |-> "list", v |-> DefaultTests]],
      [shape |-> "other",
       matching_threshold |-> [t |-> "absent", v |-> 0],
       markup_percentage |-> [t |-> "absent", v |-> 0],
       default_tests |-> [t |-> "absent", v |-> << >>]] }

\* What load_config and the loaders of the RFP and of the catalog find on
\* disk.
SourceKinds == { "ok", "missing", "malformed" }

\* load_config(): the content of the file as parsed, unvalidated; the
\* defaults when the file is missing, is not valid JSON or cannot be read.
\* It raises nothing.
LoadConfig(kind, data) ==
    [raised |-> "", value |-> IF kind = "ok" THEN data ELSE DefaultConfig]

\* The values load_config can return.
Configs == { LoadConfig(kind, data).value : kind \in SourceKinds, data \in ConfigFiles }

\* config.get("matching_threshold", 0.3) on a dict.
ConfigThreshold(config) ==
    IF config.matching_threshold.t = "absent"
    THEN [t |-> "num", v |-> DefaultThreshold]
    ELSE config.matching_threshold

\* A variant of the engine that reads the configuration before it looks at
\* its inputs.
MatchProductsToRfpConfigFirst(rfp, products, config) ==
    IF config.shape # "dict" THEN [raised |-> "AttributeError", value |-> << >>]
    ELSE IF ConfigThreshold(config).t # "num" THEN [raised |-> "TypeError", value |-> << >>]
    ELSE IF Len(products) = 0 THEN [raised |-> "", value |-> << >>]
    ELSE IF Len(rfp.requirements) = 0 THEN [raised |-> "", value |-> << >>]
    ELSE [raised |-> "",
          value |-> SortByScore(FilterFrom(rfp, products, 1, ConfigThreshold(config).v))]

\* match_products_to_rfp(rfp, products) with the configuration it loads:
\* the sorted list of the results at or above the threshold, or the exception
\* it raises (config.get on a value that is no dict; the comparison of a score
\* with a threshold that is no number).
MatchProductsToRfp(rfp, products, config) ==
    IF Len(products) = 0 THEN [raised |-> "", value |-> << >>]
    ELSE IF Len(rfp.requirements) = 0 THEN [raised |-> "", value |-> << >>]
    ELSE IF config.shape # "dict" THEN [raised |-> "AttributeError", value |-> << >>]
    ELSE IF ConfigThreshold(config).t # "num" THEN [raised |-> "TypeError", value |-> << >>]
    ELSE [raised |-> "",
          value |-> SortByScore(FilterFrom(rfp, products, 1, ConfigThreshold(config).v))]

\* ------------------------------------------------------------------------
\* graph.py: the state and the selection policy
\* ------------------------------------------------------------------------

\* state.get(key, default) on the workflow state (a dict whose keys may be
\* absent: RFPState is a TypedDict with total=False).
Get(s, key, default) == IF key \in DOMAIN s THEN s[key] ELSE default

\* A variant of the merge that replaces the state by the update.
MergeReplace(s, update) == update

\* The merge of a node's returned update into the state: the keys of the
\* update are overwritten, every other key keeps its value.
Merge(s, update) ==
    [k \in (DOMAIN s) \cup (DOMAIN update) |->
        IF k \in DOMAIN update THEN update[k] ELSE s[k]]

\* critical_keywords of has_critical_missing_requirements
critical_keywords ==
    << "compliance", "compliant", "regulatory", "regulation",
       "security", "secure", "encryption", "authentication",
       "mandatory", "required", "must have", "critical",
       "certification", "certified", "audit", "sox", "hipaa",
       "gdpr", "pci", "iso", "soc 2", "soc2" >>

\* How many critical requirements the reason lists (critical_missing[:3]).
CriticalShown == 3

\* `next((r for r in missing_reqs if r.lower() == req), req)`
OriginalCasing(missing_reqs, req) ==
    LET hits == { i \in 1..Len(missing_reqs) : Lower(missing_reqs[i]) = req }
    IN IF hits = {} THEN req
       ELSE missing_reqs[CHOOSE i \in hits : \A j \in hits : i <= j]

RECURSIVE CriticalMissingFrom(_, _)
\* The `for req in missing_lower` loop: critical_missing.
CriticalMissingFrom(missing_reqs, k) ==
    IF k > Len(missing_reqs) THEN << >>
    ELSE LET req == Lower(missing_reqs[k])
         IN (IF \E i \in 1..Len(critical_keywords) : Contains(req, critical_keywords[i])
             THEN << OriginalCasing(missing_reqs, req) >> ELSE << >>)
            \o CriticalMissingFrom(missing_reqs, k + 1)

\* has_critical_missing_requirements(missing_reqs)
HasCriticalMissingRequirements(missing_reqs) ==
    IF Len(missing_reqs) = 0 THEN [has |-> FALSE, items |-> ""]
    ELSE LET critical_missing == CriticalMissingFrom(missing_reqs, 1)
         IN IF Len(critical_missing) > 0
            THEN [has |-> TRUE, items |-> Join(Take(critical_missing, CriticalShown), ", ")]
            ELSE [has |-> FALSE, items |-> ""]

\* Scores (in hundredths) of the suitability bands: score >= 0.8, score >= 0.6.
StrongScore == 80

ModerateScore == 60

\* int(score * 100) for a score of two decimals: the product of the binary
\* floats falls just below the integer for 0.29, 0.57 and 0.58.
IntPercent(score) == IF score \in {29, 57, 58} THEN score - 1 ELSE score

\* A variant of the classification whose second rule accepts a moderate score
\* without looking at the critical gap.
AssessSuitabilityScoreOnly(score, has_critical, critical_items) ==
    IF score >= ModerateScore
    THEN [suitability |-> "suitable",
          reason |-> [kind |-> "Moderate match with acceptable gaps",
                      percent |-> IntPercent(score), items |-> "",
                      score |-> 0, threshold |-> 0]]
    ELSE IF has_critical
    THEN [suitability |-> "not suitable",
          reason |-> [kind |-> "Missing critical requirements",
                      percent |-> 0, items |-> critical_items,
                      score |-> 0, threshold |-> 0]]
    ELSE [suitability |-> "partial",
          reason |-> [kind |-> "Weak match, significant gaps exist",
                      percent |-> IntPercent(score), items |-> "",
                      score |-> 0, threshold |-> 0]]

\* A variant of the classification whose weak-match rule stops at 0.5, so
\* that scores from 0.5 up to 0.6 without a critical gap fall through.
AssessSuitabilityWeakBelowHalf(score, has_critical, critical_items) ==
    IF score >= ModerateScore /\ ~has_critical
    THEN [suitability |-> "suitable",
          reason |-> [kind |-> IF score >= StrongScore
                               THEN "Strong match with no critical missing requirements"
                               ELSE "Moderate match with acceptable gaps",
                      percent |-> IntPercent(score), items |-> "",
                      score |-> 0, threshold |-> 0]]
    ELSE IF has_critical
    THEN [suitability |-> "not suitable",
          reason |-> [kind |-> "Missing critical requirements",
                      percent |-> 0, items |-> critical_items,
                      score |-> 0, threshold |-> 0]]
    ELSE IF score < 50
    THEN [suitability |-> "partial",
          reason |-> [kind |-> "Weak match, significant gaps exist",
                      percent |-> IntPercent(score), items |-> "",
                      score |-> 0, threshold |-> 0]]
    ELSE [suitability |-> "partial",
          reason |-> [kind |-> "Moderate match with some gaps",
                      percent |-> IntPercent(score), items |-> "",
                      score |-> 0, threshold |-> 0]]

\* The suitability classification of select_node (the if/elif chain).
\* A reason keeps the parts of the formatted string: its wording (kind), the
\* percentage, the critical items, and the score and threshold it cites.
AssessSuitability(score, has_critical, critical_items) ==
    IF score >= StrongScore /\ ~has_critical
    THEN [suitability |-> "suitable",
          reason |-> [kind |-> "Strong match with no critical missing requirements",
                      percent |-> IntPercent(score), items |-> "",
                      score |-> 0, threshold |-> 0]]
    ELSE IF score >= ModerateScore /\ ~has_critical
    THEN [suitability |-> "suitable",
          reason |-> [kind |-> "Moderate match with acceptable gaps",
                      percent |-> IntPercent(score), items |-> "",
                      score |-> 0, threshold |-> 0]]
    ELSE IF has_critical
    THEN [suitability |-> "not suitable",
          reason |-> [kind |-> "Missing critical requirements",
                      percent |-> 0, items |-> critical_items,
                      score |-> 0, threshold |-> 0]]
    ELSE IF score < ModerateScore
    THEN [suitability |-> "partial",
          reason |-> [kind |-> "Weak match, significant gaps exist",
                      percent |-> IntPercent(score), items |-> "",
                      score |-> 0, threshold |-> 0]]
    ELSE [suitability |-> "partial",
          reason |-> [kind |-> "Moderate match with some gaps",
                      percent |-> IntPercent(score), items |-> "",
                      score |-> 0, threshold |-> 0]]

\* A variant of the assessment that also reads what the match matched: a
\* match resting on a single spec is never suitable.
AssessMatchBySpecs(best_match) ==
    LET crit == HasCriticalMissingRequirements(best_match.missing_requirements)
        verdict == AssessSuitability(best_match.match_score, crit.has, crit.items)
    IN IF "VPN support" \in best_match.matched_specs
       THEN [verdict EXCEPT !.suitability = "partial"]
       ELSE verdict

\* The assessment of the best match: its score and its missing requirements
\* decide the verdict and the reason.
AssessMatch(best_match) ==
    LET crit == HasCriticalMissingRequirements(best_match.missing_requirements)
    IN AssessSuitability(best_match.match_score, crit.has, crit.items)

\* How many missing requirements a rejection reason and the justification name.
RejectedShown == 2

JustificationMissingShown == 3

\* The rejection entry of one match of all_matches[1:].
Rejection(match) ==
    [product_name |-> match.product_name,
     match_score |-> match.match_score,
     reason |-> [score |-> match.match_score,
                 missing |-> Join(Take(match.missing_requirements, RejectedShown), ", ")]]

\* A variant of the rejected list that does not skip the selected product.
RejectedProductsAll(all_matches) ==
    [i \in 1..Len(all_matches) |-> Rejection(all_matches[i])]

\* `for match in all_matches[1:]`: the rejected list.
RejectedProducts(all_matches) ==
    [i \in 1..(Len(all_matches) - 1) |-> Rejection(all_matches[i + 1])]

\* A variant of the threshold of select_node that ignores the configuration.
SelectThresholdDefault(config) == [t |-> "num", v |-> DefaultThreshold]

\* The threshold select_node uses: config.get inside the try, 0.3 when
\* loading or reading the configuration raised.
SelectThreshold(config) ==
    IF config.shape # "dict" THEN [t |-> "num", v |-> DefaultThreshold]
    ELSE ConfigThreshold(config)

\* A variant of the threshold check of select_node that also turns down a
\* best match scoring exactly the threshold.
BelowOrAtThreshold(match_score, threshold) == match_score <= threshold

\* `best_match.match_score < threshold` of select_node.
BelowThreshold(match_score, threshold) == match_score < threshold

\* select_node(state) with the configuration it loads: the update it returns,
\* or the exception it raises (nothing in select_node catches the comparison
\* of the score with a threshold that is no number).
SelectNodeResult(s, config) ==
    LET matches == Get(s, "matches", << >>)
        all_matches == Get(s, "all_matches", matches)
    IN IF Len(matches) = 0
       THEN [raised |-> "",
             update |-> [matches |-> << >>,
                         selection_justification |->
                             [kind |-> "No products matched the RFP requirements.",
                              product_name |-> "", score |-> 0, threshold |-> 0,
                              matched |-> {}, missing |-> ""],
                         suitability |-> "not suitable",
                         suitability_reason |->
                             [kind |-> "No products meet minimum requirements",
                              percent |-> 0, items |-> "", score |-> 0, threshold |-> 0],
                         rejected_products |-> << >>]]
       ELSE LET threshold == SelectThreshold(config)
                best_match == matches[1]
            IN IF threshold.t # "num"
               THEN [raised |-> "TypeError", update |-> << >>]
               ELSE IF BelowThreshold(best_match.match_score, threshold.v)
               THEN [raised |-> "",
                     update |-> [matches |-> << >>,
                                 selection_justification |->
                                     [kind |-> "No suitable product found",
                                      product_name |-> best_match.product_name,
                                      score |-> best_match.match_score,
                                      threshold |-> threshold.v,
                                      matched |-> {}, missing |-> ""],
                                 suitability |-> "not suitable",
                                 suitability_reason |->
                                     [kind |-> "Best match score below threshold",
                                      percent |-> 0, items |-> "",
                                      score |-> best_match.match_score,
                                      threshold |-> threshold.v],
                                 rejected_products |-> << >>,
                                 error |-> "No suitable products meet the minimum requirements"]]
               ELSE LET score == best_match.match_score
                        missing_reqs == best_match.missing_requirements
                        verdict == AssessMatch(best_match)
                    IN [raised |-> "",
                        update |-> [matches |-> << best_match >>,
                                    selection_justification |->
                                        [kind |-> "Selected",
                                         product_name |-> best_match.product_name,
                                         score |-> score, threshold |-> 0,
                                         matched |-> best_match.matched_specs,
                                         missing |-> Join(Take(missing_reqs,
                                                               JustificationMissingShown), ", ")],
                                    suitability |-> verdict.suitability,
                                    suitability_reason |-> verdict.reason,
                                    rejected_products |-> RejectedProducts(all_matches)]]

\* A router gated by the verdict instead of the selection.
ShouldContinueByVerdict(s) ==
    IF Get(s, "suitability", "unknown") = "not suitable" THEN "output" ELSE "pricing"

\* A router that always continues to pricing.
ShouldContinueAlways(s) == "pricing"

\* should_continue(state): the routing function of the conditional edge.
ShouldContinue(s) ==
    IF Len(Get(s, "matches", << >>)) = 0 THEN "output" ELSE "pricing"

\* ------------------------------------------------------------------------
\* calculator.py
\* ------------------------------------------------------------------------

\* The lists load_pricing_tests can return: the test catalog, an empty list
\* (file missing or unreadable), and a catalog with an entry whose cost is
\* no number (load_pricing_tests validates nothing).
PricingTestCatalogs ==
    { << [test_name |-> "security_audit", cost |-> [t |-> "num", v |-> 2500],
          description |-> "Security audit"],
         [test_name |-> "integration_test", cost |-> [t |-> "num", v |-> 1500],
          description |-> "Integration test"] >>,
      << >>,
      << [test_name |-> "security_audit", cost |-> [t |-> "str", v |-> 0],
          description |-> "Security audit"] >> }

\* `next((t for t in pricing_tests if t.get("test_name") == test_name), None)`:
\* the index of the first entry of that name, 0 for None.
FindTest(pricing_tests, test_name) ==
    LET hits == { i \in 1..Len(pricing_tests) : pricing_tests[i].test_name = test_name }
    IN IF hits = {} THEN 0 ELSE CHOOSE i \in hits : \A j \in hits : i <= j

RECURSIVE ResolveTests(_, _, _)
\* The `for test_name in default_tests` loop: the TestCost entries of the
\* names that resolve, in order.
ResolveTests(default_tests, pricing_tests, k) ==
    IF k > Len(default_tests) THEN << >>
    ELSE LET i == FindTest(pricing_tests, default_tests[k])
         IN (IF i # 0 THEN << pricing_tests[i] >> ELSE << >>)
            \o ResolveTests(default_tests, pricing_tests, k + 1)

\* A variant of the running sum that keeps the first resolved cost only.
SumCostsFirst(test_costs) ==
    IF Len(test_costs) = 0 THEN 0 ELSE test_costs[1].cost.v

RECURSIVE SumCosts(_)
\* total_test_cost: the running sum of the resolved costs.
SumCosts(test_costs) ==
    IF Len(test_costs) = 0 THEN 0
    ELSE test_costs[1].cost.v + SumCosts(Tail(test_costs))

\* `next((p for p in products if p.id == match.product_id), None)`
FindProduct(products, product_id) ==
    LET hits == { i \in 1..Len(products) : products[i].id = product_id }
    IN IF hits = {} THEN 0 ELSE CHOOSE i \in hits : \A j \in hits : i <= j

\* A variant of the PricingResult that applies the markup to the base price
\* alone.
PriceProductMarkupOnBase(product, test_costs, markup_percentage) ==
    LET total_test_cost == SumCosts(test_costs)
        subtotal == product.base_price + total_test_cost
        markup_amount == product.base_price * markup_percentage
        total_price == 100 * subtotal + markup_amount
    IN [product_id |-> product.id,
        product_name |-> product.name,
        base_price |-> product.base_price,
        test_costs |-> test_costs,
        total_test_cost |-> total_test_cost,
        subtotal |-> subtotal,
        markup_percentage |-> markup_percentage,
        markup_amount |-> markup_amount,
        total_price |-> total_price,
        breakdown |-> [base_price |-> product.base_price,
                       test_costs |-> total_test_cost,
                       subtotal |-> subtotal,
                       markup |-> markup_amount,
                       total |-> total_price]]

\* The PricingResult of one product. base_price, total_test_cost and subtotal
\* are in currency units; markup_amount and total_price in hundredths of one
\* (subtotal * markup_percentage / 100 need not be whole).
PriceProduct(product, test_costs, markup_percentage) ==
    LET total_test_cost == SumCosts(test_costs)
        subtotal == product.base_price + total_test_cost
        markup_amount == subtotal * markup_percentage
        total_price == 100 * subtotal + markup_amount
    IN [product_id |-> product.id,
        product_name |-> product.name,
        base_price |-> product.base_price,
        test_costs |-> test_costs,
        total_test_cost |-> total_test_cost,
        subtotal |-> subtotal,
        markup_percentage |-> markup_percentage,
        markup_amount |-> markup_amount,
        total_price |-> total_price,
        breakdown |-> [base_price |-> product.base_price,
                       test_costs |-> total_test_cost,
                       subtotal |-> subtotal,
                       markup |-> markup_amount,
                       total |-> total_price]]

RECURSIVE PriceMatchesFrom(_, _, _, _, _, _)
\* The `for match in matches` loop of calculate_pricing.
PriceMatchesFrom(matches, k, products, default_tests, pricing_tests, markup_percentage) ==
    IF k > Len(matches) THEN << >>
    ELSE LET i == FindProduct(products, matches[k].product_id)
         IN (IF i = 0 THEN << >>
             ELSE << PriceProduct(products[i],
                                  ResolveTests(default_tests, pricing_tests, 1),
                                  markup_percentage) >>)
            \o PriceMatchesFrom(matches, k + 1, products, default_tests,
                                pricing_tests, markup_percentage)

\* calculate_pricing(matches, products) with the configuration and the
\* pricing tests it loads: the pricing results, or the exception it raises
\* (config.get on a value that is no dict; a resolved test whose cost is no
\* number).
CalculatePricing(matches, products, config, pricing_tests) ==
    IF Len(matches) = 0 THEN [raised |-> "", value |-> << >>]
    ELSE IF Len(products) = 0 THEN [raised |-> "", value |-> << >>]
    ELSE IF config.shape # "dict" THEN [raised |-> "AttributeError", value |-> << >>]
    ELSE LET markup_percentage ==
                 IF config.markup_percentage.t = "absent" THEN DefaultMarkup
                 ELSE config.markup_percentage.v
             default_tests ==
                 IF config.default_tests.t = "absent" THEN DefaultTests
                 ELSE config.default_tests.v
             resolved == ResolveTests(default_tests, pricing_tests, 1)
             priced == \E k \in 1..Len(matches) : FindProduct(products, matches[k].product_id) # 0
         IN IF priced /\ \E j \in 1..Len(resolved) : resolved[j].cost.t # "num"
            THEN [raised |-> "ValidationError", value |-> << >>]
            ELSE [raised |-> "",
                  value |-> PriceMatchesFrom(matches, 1, products, default_tests,
                                             pricing_tests, markup_percentage)]

\* ------------------------------------------------------------------------
\* The agents and orchestrator.py
\* ------------------------------------------------------------------------

\* analyze_technical_fit: the text the coroutine returns. The call to the
\* language model sits in a try whose handler returns a fallback built from
\* the best match, so the coroutine itself does not raise.
AnalyzeTechnicalFit(matches, llm_ok) ==
    IF Len(matches) = 0 THEN [raised |-> FALSE, text |-> "No product selected for analysis."]
    ELSE IF llm_ok THEN [raised |-> FALSE, text |-> "<technical analysis by the model>"]
    ELSE [raised |-> FALSE, text |-> "Technical Analysis for " \o matches[1].product_name]

\* explain_pricing: likewise.
ExplainPricing(pricing, llm_ok) ==
    IF Len(pricing) = 0 THEN [raised |-> FALSE, text |-> "No pricing information available."]
    ELSE IF llm_ok THEN [raised |-> FALSE, text |-> "<pricing explanation by the model>"]
    ELSE [raised |-> FALSE, text |-> "Pricing for " \o pricing[1].product_name]

\* How much of the technical analysis the sales fallback quotes
\* (technical_analysis[:300]).
SalesQuoted == 300

\* generate_sales_pitch: likewise; its fallback names the RFP and the product
\* and quotes the start of the technical analysis it was given.
GenerateSalesPitch(rfp, matches, pricing, technical_analysis, llm_ok) ==
    IF Len(matches) = 0 \/ Len(pricing) = 0
    THEN [raised |-> FALSE, text |-> "Unable to generate proposal due to insufficient data."]
    ELSE IF llm_ok THEN [raised |-> FALSE, text |-> "<sales pitch by the model>"]
    ELSE [raised |-> FALSE,
          text |-> "Proposal for " \o rfp.title
                   \o "; Proposed Solution: " \o matches[1].product_name
                   \o "; Technical Analysis: " \o Take(technical_analysis, SalesQuoted)]

\* A variant of the orchestrator's handling of one gathered result that
\* substitutes the fallback whatever the result.
HandleResultAlwaysFallback(result, fallback) == fallback

\* The orchestrator's handling of one gathered result (return_exceptions=True):
\* an exception is replaced by the fixed fallback string, a text is kept.
HandleResult(result, fallback) ==
    IF result.raised THEN fallback ELSE result.text

\* The fixed fallback strings of run_agents.
TechnicalUnavailable == "Technical analysis unavailable due to an error."

PricingUnavailable == "Pricing explanation unavailable due to an error."

SalesUnavailable == "Sales proposal unavailable due to an error."

\* agent_node's update when there is no match or no pricing.
InsufficientData ==
    [technical_analysis |-> "Insufficient data for technical analysis.",
     pricing_explanation |-> "Insufficient data for pricing explanation.",
     sales_pitch |-> "Unable to generate proposal due to insufficient data."]

\* ------------------------------------------------------------------------
\* formatter.py
\* ------------------------------------------------------------------------

\* Python's None, for the optional text fields.
NoneValue == "<None>"

\* None for the optional selection_justification and suitability_reason.
NoneJustification ==
    [kind |-> NoneValue, product_name |-> "", score |-> 0, threshold |-> 0,
     matched |-> {}, missing |-> ""]

NoneReason == [kind |-> NoneValue, percent |-> 0, items |-> "", score |-> 0, threshold |-> 0]

RECURSIVE SumTotalPrice(_)
\* sum(p.total_price for p in pricing)
SumTotalPrice(pricing) ==
    IF Len(pricing) = 0 THEN 0
    ELSE pricing[1].total_price + SumTotalPrice(Tail(pricing))

\* The formatter's default for a text field the state lacks.
TextDefault(text) == text

\* The required fields of the Proposal schema.
ProposalRequired ==
    { "rfp_id", "rfp_title", "matches", "pricing", "technical_analysis",
      "pricing_explanation", "sales_pitch", "total_value", "generated_at" }

\* The validation the Proposal constructor runs on the required text fields.
ValidProposal(p) ==
    /\ ProposalRequired \subseteq DOMAIN p
    /\ p.technical_analysis # NoneValue
    /\ p.pricing_explanation # NoneValue
    /\ p.sales_pitch # NoneValue

\* format_proposal(state): the Proposal, or the exception raised.
FormatProposal(s) ==
    IF "rfp" \notin DOMAIN s
    THEN [raised |-> "ValueError", proposal |-> << >>]
    ELSE LET rfp == s["rfp"]
             matches == Get(s, "matches", << >>)
             pricing == Get(s, "pricing", << >>)
             rejected_products == Get(s, "rejected_products", << >>)
             proposal ==
                 [rfp_id |-> rfp.id,
                  rfp_title |-> rfp.title,
                  matches |-> matches,
                  selection_justification |->
                      Get(s, "selection_justification", NoneJustification),
                  suitability |-> Get(s, "suitability", NoneValue),
                  suitability_reason |-> Get(s, "suitability_reason", NoneReason),
                  rejected_products |-> [is_none |-> Len(rejected_products) = 0,
                                         value |-> rejected_products],
                  pricing |-> pricing,
                  technical_analysis |->
                      Get(s, "technical_analysis", TextDefault("No technical analysis available.")),
                  pricing_explanation |->
                      Get(s, "pricing_explanation", TextDefault("No pricing explanation available.")),
                  sales_pitch |->
                      Get(s, "sales_pitch", TextDefault("No sales pitch available.")),
                  total_value |-> IF Len(pricing) > 0 THEN SumTotalPrice(pricing) ELSE 0,
                  generated_at |-> "utcnow"]
         IN IF ValidProposal(proposal)
            THEN [raised |-> "", proposal |-> proposal]
            ELSE [raised |-> "ValidationError", proposal |-> << >>]

\* output_node(state): the update it returns.
OutputNodeUpdate(s) ==
    LET r == FormatProposal(s)
    IN IF r.raised = "" THEN [proposal |-> r.proposal]
       ELSE [error |-> "Failed to format proposal: " \o r.raised]

\* ------------------------------------------------------------------------
\* The inputs: RFPs and catalogs on disk
\* ------------------------------------------------------------------------

\* Requirements an RFP may list, in the order it lists them.
ReqVocab ==
    << "firewall", "VPN", "encryption standard", "Firewall rule management",
       "multi-factor authentication" >>

\* Products a catalog may hold.
ProductPool ==
    { [id |-> "prod-001", name |-> "CloudGuard Firewall Pro",
       specs |-> << "next-generation firewall", "VPN support" >>, base_price |-> 15000],
      [id |-> "prod-002", name |-> "SecureNet Basic",
       specs |-> << "basic login", "data encryption" >>, base_price |-> 9000],
      [id |-> "prod-003", name |-> "EdgeWall",
       specs |-> << "Firewall", "data encryption" >>, base_price |-> 12000] }

\* The sequences of at most n distinct elements of S.
DistinctSeqs(S, n) ==
    UNION { { q \in [1..k -> S] : \A i, j \in 1..k : i # j => q[i] # q[j] } : k \in 0..n }

RECURSIVE Pick(_, _, _)
\* The elements of seq at the positions of the set I, from position k on.
Pick(seq, I, k) ==
    IF k > Len(seq) THEN << >>
    ELSE (IF k \in I THEN << seq[k] >> ELSE << >>) \o Pick(seq, I, k + 1)

\* The sub-lists of at most n elements of seq.
SubLists(seq, n) ==
    { Pick(seq, I, 1) : I \in { J \in SUBSET (1..Len(seq)) : Cardinality(J) <= n } }

RequirementLists == SubLists(ReqVocab, MaxReqs)

Catalogs == DistinctSeqs(ProductPool, MaxProducts)

\* A variant of the loaders that raises nothing.
LoadErrorNone(kind) == ""

\* The exception a loader raises for a source: FileNotFoundError for a
\* missing file, ValueError for a payload that does not parse or validate.
LoadError(kind) ==
    IF kind = "missing" THEN "FileNotFoundError"
    ELSE IF kind = "malformed" THEN "ValueError"
    ELSE ""

\* ------------------------------------------------------------------------
\* The pipeline and the workflow graph
\* ------------------------------------------------------------------------

VARIABLES
    pc,        \* where the request is: "load", a node of the graph, "gather" and
               \* "sales" inside the agent node, "end", "returned" or "raised"
    state,     \* the RFPState the graph threads through the nodes
    agents,    \* the text-generation calls of run_agents in flight
    raised,    \* the exception run_pipeline raised, "" if none
    ran,       \* the nodes executed so far, in order
    instances, \* concurrent requests: the workflow instance of each, once started
    shared     \* what concurrent requests share read-only: the catalog, the
               \* configuration and the pricing tests on disk

vars == << pc, state, agents, raised, ran, instances, shared >>

\* A variant of the guard of agent_node that looks at the selection only.
NoMatchesForAgents(s) == Len(Get(s, "matches", << >>)) = 0

\* `if not matches or not pricing` of agent_node.
InsufficientForAgents(s) ==
    Len(Get(s, "matches", << >>)) = 0 \/ Len(Get(s, "pricing", << >>)) = 0

\* The variables of concurrent requests.
concurrent == << instances, shared >>

\* No call issued. For each call: whether it is issued or has resolved,
\* whether the language model answered (llm_ok), and the text kept for it.
NoCalls ==
    [technical_call |-> "not issued", technical_llm_ok |-> FALSE, technical_result |-> "",
     pricing_call |-> "not issued", pricing_llm_ok |-> FALSE, pricing_result |-> "",
     sales_call |-> "not issued", sales_llm_ok |-> FALSE, sales_context |-> "",
     sales_result |-> ""]

Init ==
    /\ pc = "load"
    /\ state = << >>
    /\ agents = NoCalls
    /\ raised = ""
    /\ ran = << >>
    /\ instances = << >>
    /\ shared = << >>

\* run_pipeline up to the start of the graph, when a load fails: load_rfp
\* raises, or load_rfp succeeds and load_products raises.
LoadFails ==
    /\ pc = "load"
    /\ \E rfp_source, products_source \in SourceKinds :
          /\ rfp_source # "ok" \/ products_source # "ok"
          /\ raised' = IF rfp_source # "ok" THEN LoadError(rfp_source)
                       ELSE LoadError(products_source)
    /\ pc' = "raised"
    /\ UNCHANGED << state, agents, ran, concurrent >>

\* run_pipeline up to the start of the graph: the RFP and the catalog load
\* and make the initial state.
Load ==
    /\ pc = "load"
    /\ \E requirements \in RequirementLists, products \in Catalogs :
          state' = [rfp_id |-> "rfp1",
                    rfp |-> [id |-> "rfp-2024-001", title |-> "Enterprise Security Solution",
                             requirements |-> requirements],
                    products |-> products]
    /\ pc' = "match"
    /\ UNCHANGED << agents, raised, ran, concurrent >>

\* match_node(state) with the configuration the engine loads: the update it
\* returns.
MatchNodeUpdate(s, config) ==
    LET r == MatchProductsToRfp(s["rfp"], s["products"], config)
    IN IF r.raised # ""
       THEN [matches |-> << >>, all_matches |-> << >>,
             error |-> "Matching failed: " \o r.raised]
       ELSE IF Len(r.value) = 0
       THEN [matches |-> << >>, all_matches |-> << >>,
             error |-> "No suitable products found for the RFP requirements"]
       ELSE [matches |-> r.value, all_matches |-> r.value]

\* match_node
MatchNode ==
    /\ pc = "match"
    /\ \E config \in Configs : state' = Merge(state, MatchNodeUpdate(state, config))
    /\ pc' = "select"
    /\ ran' = Append(ran, "match")
    /\ UNCHANGED << agents, raised, concurrent >>

\* select_node, then the conditional edge; an exception of select_node leaves
\* the graph and run_pipeline re-raises it.
SelectNode ==
    /\ pc = "select"
    /\ \E config \in Configs :
          LET r == SelectNodeResult(state, config)
          IN IF r.raised # ""
             THEN /\ state' = state
                  /\ pc' = "raised"
                  /\ raised' = r.raised
             ELSE /\ state' = Merge(state, r.update)
                  /\ pc' = ShouldContinue(state')
                  /\ raised' = raised
    /\ ran' = Append(ran, "select")
    /\ UNCHANGED << agents, concurrent >>

\* pricing_node(state) with the configuration and the pricing tests the
\* calculator loads: the update it returns.
PricingNodeUpdate(s, config, pricing_tests) ==
    LET matches == Get(s, "matches", << >>)
        r == CalculatePricing(matches, s["products"], config, pricing_tests)
    IN IF Len(matches) = 0 THEN [pricing |-> << >>]
       ELSE IF r.raised # ""
       THEN [pricing |-> << >>,
             error |-> "Pricing calculation failed: " \o r.raised]
       ELSE [pricing |-> r.value]

\* pricing_node
PricingNode ==
    /\ pc = "pricing"
    /\ \E config \in Configs, pricing_tests \in PricingTestCatalogs :
          state' = Merge(state, PricingNodeUpdate(state, config, pricing_tests))
    /\ pc' = "agent"
    /\ ran' = Append(ran, "pricing")
    /\ UNCHANGED << agents, raised, concurrent >>

\* A variant that starts the pricing explanation only after the technical
\* analysis: the gather schedules the technical coroutine alone.
IssueCallsOneByOne == [agents EXCEPT !.technical_call = "pending"]

\* The two coroutines asyncio.gather schedules.
IssueCalls == [agents EXCEPT !.technical_call = "pending", !.pricing_call = "pending"]

\* agent_node up to its first suspension: the placeholders when there is no
\* match or no pricing, else run_agents up to the gather.
AgentNode ==
    /\ pc = "agent"
    /\ ran' = Append(ran, "agent")
    /\ IF InsufficientForAgents(state)
       THEN /\ state' = Merge(state, InsufficientData)
            /\ pc' = "output"
            /\ agents' = agents
       ELSE /\ agents' = IssueCalls
            /\ pc' = "gather"
            /\ state' = state
    /\ UNCHANGED << raised, concurrent >>

\* The technical-fit call resolves: the model answers or fails.
TechnicalResolves ==
    /\ pc = "gather"
    /\ agents.technical_call = "pending"
    /\ \E llm_ok \in BOOLEAN :
          agents' = [agents EXCEPT
                        !.technical_call = "resolved",
                        !.technical_llm_ok = llm_ok,
                        !.technical_result =
                            HandleResult(AnalyzeTechnicalFit(state["matches"], llm_ok),
                                         TechnicalUnavailable)]
    /\ UNCHANGED << pc, state, raised, ran, concurrent >>

\* The pricing-explanation call resolves.
PricingResolves ==
    /\ pc = "gather"
    /\ agents.pricing_call = "pending"
    /\ \E llm_ok \in BOOLEAN :
          agents' = [agents EXCEPT
                        !.pricing_call = "resolved",
                        !.pricing_llm_ok = llm_ok,
                        !.pricing_result =
                            HandleResult(ExplainPricing(state["pricing"], llm_ok),
                                         PricingUnavailable)]
    /\ UNCHANGED << pc, state, raised, ran, concurrent >>

\* A variant of the gather that returns as soon as one of the two awaited
\* coroutines is done.
GatherDoneFirst(a) == a.technical_call = "resolved" \/ a.pricing_call = "resolved"

\* Whether the gather has returned: both awaited coroutines are done.
GatherDone(a) == a.technical_call = "resolved" /\ a.pricing_call = "resolved"

\* run_agents after the gather: the sales-pitch call is issued with the
\* technical analysis as context.
IssueSales ==
    /\ pc = "gather"
    /\ GatherDone(agents)
    /\ agents' = [agents EXCEPT !.sales_call = "pending",
                                !.sales_context = agents.technical_result]
    /\ pc' = "sales"
    /\ UNCHANGED << state, raised, ran, concurrent >>

\* The sales-pitch call resolves; run_agents returns the three texts and
\* agent_node returns them as its update.
SalesResolves ==
    /\ pc = "sales"
    /\ agents.sales_call = "pending"
    /\ \E llm_ok \in BOOLEAN :
          LET sales_pitch ==
                  HandleResult(GenerateSalesPitch(state["rfp"], state["matches"], state["pricing"],
                                                  agents.sales_context, llm_ok),
                               SalesUnavailable)
          IN /\ agents' = [agents EXCEPT !.sales_call = "resolved",
                                         !.sales_llm_ok = llm_ok,
                                         !.sales_result = sales_pitch]
             /\ state' = Merge(state,
                    [technical_analysis |-> agents.technical_result,
                     pricing_explanation |-> agents.pricing_result,
                     sales_pitch |-> sales_pitch])
    /\ pc' = "output"
    /\ UNCHANGED << raised, ran, concurrent >>

\* A variant of the graph with an edge from Output back to Match.
OutputNodeRestarts ==
    /\ pc = "output"
    /\ state' = Merge(state, OutputNodeUpdate(state))
    /\ pc' = "match"
    /\ ran' = Append(ran, "output")
    /\ UNCHANGED << agents, raised, concurrent >>

\* output_node
OutputNode ==
    /\ pc = "output"
    /\ state' = Merge(state, OutputNodeUpdate(state))
    /\ pc' = "end"
    /\ ran' = Append(ran, "output")
    /\ UNCHANGED << agents, raised, concurrent >>

\* run_pipeline after the graph: the proposal is returned, or ValueError is
\* raised when the final state holds none.
PipelineReturn ==
    /\ pc = "end"
    /\ IF "proposal" \in DOMAIN state
       THEN pc' = "returned" /\ raised' = raised
       ELSE pc' = "raised" /\ raised' = "ValueError"
    /\ UNCHANGED << state, agents, ran, concurrent >>

Next ==
    \/ LoadFails
    \/ Load
    \/ MatchNode
    \/ SelectNode
    \/ PricingNode
    \/ AgentNode
    \/ TechnicalResolves
    \/ PricingResolves
    \/ IssueSales
    \/ SalesResolves
    \/ OutputNode
    \/ PipelineReturn

Spec == Init /\ [][Next]_vars

\* ------------------------------------------------------------------------
\* Properties
\* ------------------------------------------------------------------------

\* The graph has been entered and the request is over.
RunOver == pc \in {"end", "returned", "raised"} /\ Len(ran) > 0

\* The final state holds a proposal with every required field set.
CompleteProposal == "proposal" \in DOMAIN state /\ ValidProposal(state["proposal"])

\* The requirements and the catalog of the request, once loaded.
Requirements == state["rfp"].requirements

Products == state["products"]

\* C1: every execution of the workflow ends having executed the Output
\* stage last, with a structurally complete proposal in the state.
C1_OutputAlwaysReached ==
    RunOver => (ran[Len(ran)] = "output" /\ CompleteProposal)

\* C2: the only errors run_pipeline raises are those of the loaders, raised
\* before the graph starts; once the graph has started, run_pipeline returns
\* a complete proposal.
C2_OnlyLoadErrorsSurface ==
    /\ raised # "" => (ran = << >> /\ raised \in {"FileNotFoundError", "ValueError"})
    /\ (pc \in {"returned", "raised"} /\ ran # << >>) => (pc = "returned" /\ CompleteProposal)

\* C3: the stage after Select is Pricing iff the state's matches are
\* non-empty after Select, and Output otherwise; every other stage has one
\* successor: Match to Select, Pricing to Agent, Agent to Output, Output to
\* the end.
C3_BranchOnlyAfterSelect ==
    [][ /\ (pc = "match" => pc' = "select")
        /\ ((pc = "select" /\ pc' # "raised") =>
               pc' = IF Len(state'["matches"]) > 0 THEN "pricing" ELSE "output")
        /\ (pc = "pricing" => pc' = "agent")
        /\ (pc = "agent" => pc' \in {"gather", "output"})
        /\ (pc = "gather" => pc' \in {"gather", "sales"})
        /\ (pc = "sales" => pc' = "output")
        /\ (pc = "output" => pc' = "end") ]_vars

\* C3 witness: Select has cleared a non-empty match list and the workflow
\* skipped to Output.
C3_Witness ==
    /\ pc = "output"
    /\ ran = << "match", "select" >>
    /\ Len(state["all_matches"]) > 0
    /\ Len(state["matches"]) = 0

\* A text-generation call of the Agent stage failed.
SomeCallFailed ==
    \/ agents.technical_call = "resolved" /\ ~agents.technical_llm_ok
    \/ agents.pricing_call = "resolved" /\ ~agents.pricing_llm_ok
    \/ agents.sales_call = "resolved" /\ ~agents.sales_llm_ok

\* C4: no stage lets an exception leave its node (after the graph has
\* started, only run_pipeline's own check after Output can raise), and a
\* stage that degraded leaves an error marker in the state.
C4_StagesContainFailures ==
    /\ (pc = "raised" /\ ran # << >>) => ran[Len(ran)] = "output"
    /\ (pc \in {"output", "end", "returned"} /\ SomeCallFailed) => "error" \in DOMAIN state

\* The texts of the three calls: what the model wrote, and the fallbacks.
ModelTechnical == "<technical analysis by the model>"

ModelPricing == "<pricing explanation by the model>"

ModelSales == "<sales pitch by the model>"

\* The Agent stage is over and has issued its calls.
AgentsDone == pc \in {"output", "end", "returned"} /\ agents.technical_call # "not issued"

\* C5 as stated: every failing call's output is the fixed fallback string of
\* that call, the outputs of the calls that succeeded are kept, and the stage
\* returns the three text fields.
C5_FixedFallbacks ==
    AgentsDone =>
        /\ agents.sales_call = "resolved"
        /\ state["technical_analysis"] =
               IF agents.technical_llm_ok THEN ModelTechnical ELSE TechnicalUnavailable
        /\ state["pricing_explanation"] =
               IF agents.pricing_llm_ok THEN ModelPricing ELSE PricingUnavailable
        /\ state["sales_pitch"] =
               IF agents.sales_llm_ok THEN ModelSales ELSE SalesUnavailable

\* C5, amended: every failing call's output is a fallback text, never the
\* model's (the one its agent builds from the selected match and the pricing;
\* the sales fallback quotes the technical analysis it was given); the outputs
\* of the calls that succeeded are kept; the sales-pitch call is issued
\* whatever failed; and the stage returns the three text fields.
C5_FailuresIsolated ==
    /\ AgentsDone =>
        /\ agents.sales_call = "resolved"
        /\ {"technical_analysis", "pricing_explanation", "sales_pitch"} \subseteq DOMAIN state
        /\ state["technical_analysis"] =
               IF agents.technical_llm_ok THEN ModelTechnical
               ELSE "Technical Analysis for " \o state["matches"][1].product_name
        /\ state["pricing_explanation"] =
               IF agents.pricing_llm_ok THEN ModelPricing
               ELSE "Pricing for " \o state["pricing"][1].product_name
        /\ state["sales_pitch"] =
               IF agents.sales_llm_ok THEN ModelSales
               ELSE "Proposal for " \o state["rfp"].title
                        \o "; Proposed Solution: " \o state["matches"][1].product_name
                        \o "; Technical Analysis: "
                        \o Take(state["technical_analysis"], SalesQuoted)
    /\ (pc = "gather" /\ GatherDone(agents)) => ENABLED IssueSales

\* C5 witness: the technical and the sales call failed, the pricing call
\* succeeded, and the stage has returned.
C5_Witness ==
    /\ AgentsDone
    /\ ~agents.technical_llm_ok
    /\ agents.pricing_llm_ok
    /\ ~agents.sales_llm_ok
    /\ state["pricing_explanation"] = ModelPricing

\* C6: when either of the technical-fit and pricing-explanation calls has
\* resolved, both had been issued; the sales-pitch call is issued only once
\* the technical-fit call has resolved, with that call's text as context.
C6_CallOrder ==
    /\ (agents.technical_call = "resolved" \/ agents.pricing_call = "resolved") =>
          (agents.technical_call # "not issued" /\ agents.pricing_call # "not issued")
    /\ agents.sales_call # "not issued" =>
          (agents.technical_call = "resolved"
           /\ agents.sales_context = agents.technical_result)

\* C6 witness: the sales-pitch call is in flight with the fallback of a
\* failed technical-fit call as its context.
C6_Witness ==
    /\ agents.sales_call = "pending"
    /\ ~agents.technical_llm_ok
    /\ agents.sales_context # ModelTechnical

\* The lists of the matching loop before any requirement.
EmptyLists == [matched_specs |-> << >>, missing_requirements |-> << >>]

\* C7: for every product of the catalog, the matching loop puts every
\* requirement in exactly one of the two lists: the matched list (one spec
\* appended) or the missing list, so the two lengths add up to N; and the
\* lists of every result Match stored are those of the loop.
C7_EveryRequirementClassifiedOnce ==
    /\ pc = "match" =>
          \A i \in 1..Len(Products) :
              LET c == Classify(Requirements, Products[i].specs)
              IN /\ Len(c.matched_specs) + Len(c.missing_requirements) = Len(Requirements)
                 /\ \A k \in 1..Len(Requirements) :
                       LET one == ClassifyOne(EmptyLists, Requirements[k], Products[i].specs)
                       IN /\ Len(one.matched_specs) + Len(one.missing_requirements) = 1
                          /\ (Len(one.missing_requirements) = 1) <=>
                                 (Requirements[k] \in Range(c.missing_requirements))
    /\ pc = "select" =>
          \A j \in 1..Len(state["all_matches"]) :
              LET m == state["all_matches"][j]
                  p == Products[FindProduct(Products, m.product_id)]
                  c == Classify(Requirements, p.specs)
              IN /\ m.missing_requirements = c.missing_requirements
                 /\ m.matched_specs = Range(c.matched_specs)
                 /\ Len(c.matched_specs) + Len(m.missing_requirements) = Len(Requirements)

\* C7 witness: Match stored a result with a missing requirement and with two
\* requirements matched by the same spec.
C7_Witness ==
    /\ pc = "select"
    /\ \E j \in 1..Len(state["all_matches"]) :
          LET m == state["all_matches"][j]
          IN /\ Len(m.missing_requirements) = 1
             /\ Len(Requirements) = 3
             /\ Cardinality(m.matched_specs) = 1

\* The magnitude of an integer.
Abs(n) == IF n < 0 THEN -n ELSE n

\* C8 as stated: for N > 0 the match_score of every result is exactly
\* (N - missing_count) / N.
C8_ScoreIsExactRatio ==
    pc = "select" =>
        \A j \in 1..Len(state["all_matches"]) :
            LET m == state["all_matches"][j]
                N == Len(Requirements)
            IN m.match_score * N = 100 * (N - Len(m.missing_requirements))

\* The score (in hundredths) is the ratio (N - missing_count) / N rounded to
\* two decimals: at most half a hundredth away from it.
RoundedRatio(match_score, N, missing_count) ==
    2 * Abs(match_score * N - 100 * (N - missing_count)) <= N

\* C8, amended: for N > 0 the match_score of every product is
\* (N - missing_count) / N rounded to two decimals (at most 0.005 away from
\* the ratio); it is 0 when N = 0; it lies in [0, 1].
C8_ScoreIsRoundedRatio ==
    /\ pc = "match" =>
          \A i \in 1..Len(Products) :
              LET m == CalculateMatch(state["rfp"], Products[i])
                  N == Len(Requirements)
              IN /\ N > 0 => RoundedRatio(m.match_score, N, Len(m.missing_requirements))
                 /\ N = 0 => m.match_score = 0
                 /\ m.match_score >= 0 /\ m.match_score <= 100
    /\ pc = "select" =>
          \A j \in 1..Len(state["all_matches"]) :
              LET m == state["all_matches"][j]
              IN /\ RoundedRatio(m.match_score, Len(Requirements), Len(m.missing_requirements))
                 /\ m.match_score >= 0 /\ m.match_score <= 100

\* C8 witness: Match stored a result for two of three requirements, 0.67.
C8_Witness ==
    /\ pc = "select"
    /\ Len(Requirements) = 3
    /\ \E j \in 1..Len(state["all_matches"]) :
          /\ Len(state["all_matches"][j].missing_requirements) = 1
          /\ state["all_matches"][j].match_score = 67

\* The configurations with a numeric threshold.
NumericConfigs ==
    { c \in Configs : c.shape = "dict" /\ ConfigThreshold(c).t = "num" }

\* Under config, the engine returns exactly one result for each product whose
\* score is at or above the threshold, that result being the product's, and
\* none for any other product.
OneResultPerQualifyingProduct(config) ==
    LET r == MatchProductsToRfp(state["rfp"], Products, config)
        threshold == ConfigThreshold(config).v
    IN /\ r.raised = ""
       /\ \A i \in 1..Len(Products) :
             LET m == CalculateMatch(state["rfp"], Products[i])
                 at == { j \in 1..Len(r.value) : r.value[j].product_id = Products[i].id }
             IN /\ Cardinality(at) = IF m.match_score >= threshold THEN 1 ELSE 0
                /\ \A j \in at : r.value[j] = m
                /\ (m.match_score = 0 /\ threshold = DefaultThreshold) => at = {}
       /\ \A j \in 1..Len(r.value) : FindProduct(Products, r.value[j].product_id) # 0

\* What Match stored is the engine's result under one of the configurations.
StoredByMatch ==
    \E config \in Configs :
        state["all_matches"] = MatchProductsToRfp(state["rfp"], Products, config).value

\* C9 as stated: for every RFP and every configured threshold, the engine
\* returns a result for a product iff its score is at or above the threshold.
C9_ResultIffAtOrAboveThreshold ==
    /\ pc = "match" => \A config \in NumericConfigs : OneResultPerQualifyingProduct(config)
    /\ pc = "select" => StoredByMatch

\* C9, amended: for an RFP with at least one requirement, the engine returns
\* exactly one result for each product whose score is at or above the
\* configured threshold and none for the others (a product scoring 0.0 has
\* none at threshold 0.3); for an RFP with no requirement it returns no
\* result whatever the threshold.
C9_ResultIffAtOrAboveThresholdNonEmptyRfp ==
    /\ pc = "match" =>
          \A config \in NumericConfigs :
              IF Len(Requirements) > 0
              THEN OneResultPerQualifyingProduct(config)
              ELSE MatchProductsToRfp(state["rfp"], Products, config).value = << >>
    /\ pc = "select" => StoredByMatch

\* C9 witness: Match stored a result for a product scoring exactly the
\* threshold 0.5 and none for another product of the catalog.
C9_Witness ==
    /\ pc = "select"
    /\ Len(state["all_matches"]) > 0
    /\ Len(state["all_matches"]) < Len(Products)
    /\ \E j \in 1..Len(state["all_matches"]) : state["all_matches"][j].match_score = 50
    /\ \E config \in NumericConfigs :
          /\ ConfigThreshold(config).v = 50
          /\ state["all_matches"] = MatchProductsToRfp(state["rfp"], Products, config).value

\* C10: the results Match stored are in non-increasing order of match_score,
\* and results of equal score are in the order of their products in the
\* catalog.
C10_SortedStable ==
    pc = "select" =>
        LET am == state["all_matches"]
        IN \A i, j \in 1..Len(am) :
              i < j =>
                 /\ am[i].match_score >= am[j].match_score
                 /\ am[i].match_score = am[j].match_score =>
                       FindProduct(Products, am[i].product_id)
                           < FindProduct(Products, am[j].product_id)

\* C10 witness: three results, the first two of equal score and the third
\* lower, the catalog listing the third first.
C10_Witness ==
    /\ pc = "select"
    /\ Len(state["all_matches"]) = 3
    /\ state["all_matches"][1].match_score = state["all_matches"][2].match_score
    /\ state["all_matches"][2].match_score > state["all_matches"][3].match_score
    /\ state["all_matches"][3].product_id = Products[1].id

\* ------------------------------------------------------------------------
\* The selection policy
\* ------------------------------------------------------------------------

\* A missing requirement names a critical keyword (a critical gap).
CriticalGap(missing_reqs) ==
    \E k \in 1..Len(missing_reqs), i \in 1..Len(critical_keywords) :
        Contains(Lower(missing_reqs[k]), critical_keywords[i])

\* The verdict the precedence order gives: suitable iff score >= 0.6 with no
\* critical gap, not suitable iff a critical gap, partial otherwise.
VerdictOf(score, gap) ==
    IF gap THEN "not suitable"
    ELSE IF score >= ModerateScore THEN "suitable"
    ELSE "partial"

\* The wording of the reason of the first rule that applies.
ReasonKindOf(score, gap) ==
    IF score >= StrongScore /\ ~gap THEN "Strong match with no critical missing requirements"
    ELSE IF score >= ModerateScore /\ ~gap THEN "Moderate match with acceptable gaps"
    ELSE IF gap THEN "Missing critical requirements"
    ELSE "Weak match, significant gaps exist"

\* C11: for every score and gap flag the classification gives suitable iff
\* score >= 0.6 with no critical gap, not suitable iff a critical gap is
\* present, partial iff score < 0.6 with no critical gap, with the reason of
\* the first rule that applies; and when Select has selected a best match
\* (score at or above the threshold), the verdict and the reason in the state
\* are those of its score and of the critical gap among its missing
\* requirements.
C11_SuitabilityByPrecedence ==
    /\ pc = "load" =>
          \A score \in 0..100, gap \in BOOLEAN :
              LET v == AssessSuitability(score, gap, "items")
              IN /\ v.suitability = VerdictOf(score, gap)
                 /\ v.reason.kind = ReasonKindOf(score, gap)
    /\ (pc = "pricing" /\ Len(state["matches"]) > 0) =>
          LET best == state["matches"][1]
              gap == CriticalGap(best.missing_requirements)
          IN /\ state["suitability"] = VerdictOf(best.match_score, gap)
             /\ state["suitability_reason"].kind = ReasonKindOf(best.match_score, gap)

\* C11 witness: Select has selected a best match that scores 0.67 and misses
\* a critical requirement, and the verdict is not suitable.
C11_Witness ==
    /\ pc = "pricing"
    /\ Len(state["matches"]) > 0
    /\ state["matches"][1].match_score >= ModerateScore
    /\ CriticalGap(state["matches"][1].missing_requirements)
    /\ state["suitability"] = "not suitable"

\* The matching threshold a configuration sets, 0.3 when it sets none.
ThresholdOnDisk(config) ==
    IF config.shape = "dict" /\ config.matching_threshold.t # "absent"
    THEN config.matching_threshold
    ELSE [t |-> "num", v |-> DefaultThreshold]

\* Select found the best match below the threshold: Match stored results and
\* Select cleared the selection.
BelowThresholdTaken ==
    /\ Len(ran) >= 2
    /\ pc # "raised"
    /\ Len(state["all_matches"]) > 0
    /\ Len(state["matches"]) = 0

\* C12: when the match list given to Select is non-empty and its first
\* element scores below the threshold, Select returns the verdict not
\* suitable with a reason citing that score and the threshold and an empty
\* selection, and the router then goes to Output; in every state where that
\* happened the reason cites the best score and a threshold above it, and
\* neither Pricing nor Agent has run.
C12_BelowThresholdClearsSelection ==
    /\ pc = "select" =>
          \A config \in Configs :
              LET matches == state["matches"]
                  threshold == ThresholdOnDisk(config)
                  r == SelectNodeResult(state, config)
              IN (Len(matches) > 0 /\ threshold.t = "num"
                    /\ matches[1].match_score < threshold.v) =>
                    /\ r.raised = ""
                    /\ r.update.matches = << >>
                    /\ r.update.suitability = "not suitable"
                    /\ r.update.suitability_reason.kind = "Best match score below threshold"
                    /\ r.update.suitability_reason.score = matches[1].match_score
                    /\ r.update.suitability_reason.threshold = threshold.v
                    /\ ShouldContinue(Merge(state, r.update)) = "output"
    /\ BelowThresholdTaken =>
          /\ state["suitability"] = "not suitable"
          /\ state["suitability_reason"].kind = "Best match score below threshold"
          /\ state["suitability_reason"].score = state["all_matches"][1].match_score
          /\ state["suitability_reason"].threshold > state["all_matches"][1].match_score
          /\ pc \in {"output", "end", "returned"}
          /\ "pricing" \notin Range(ran) /\ "agent" \notin Range(ran)

\* C12 witness: the best match scored 0.33, Select loaded a threshold of 0.5
\* and the run is over without Pricing or Agent.
C12_Witness ==
    /\ BelowThresholdTaken
    /\ pc = "returned"
    /\ state["all_matches"][1].match_score = 33
    /\ state["suitability_reason"].threshold = 50
    /\ ran = << "match", "select", "output" >>

\* Match has run and yielded no match.
NoMatches == Len(ran) >= 1 /\ Len(state["all_matches"]) = 0

\* C13: when Match yields no matches (as it does for an empty catalog), Select
\* raises nothing and gives the verdict not suitable with the fixed reason
\* and an empty rejection list, the router goes to Output without Pricing or
\* Agent running, and the proposal's pricing is empty.
C13_NoMatchesSkipToOutput ==
    /\ (pc = "select" /\ Len(Products) = 0) => Len(state["all_matches"]) = 0
    /\ (pc = "select" /\ NoMatches) =>
          \A config \in Configs :
              LET r == SelectNodeResult(state, config)
              IN /\ r.raised = ""
                 /\ r.update.suitability = "not suitable"
                 /\ r.update.suitability_reason.kind = "No products meet minimum requirements"
                 /\ r.update.rejected_products = << >>
                 /\ ShouldContinue(Merge(state, r.update)) = "output"
    /\ (NoMatches /\ Len(ran) >= 2) =>
          /\ pc \in {"output", "end", "returned"}
          /\ state["suitability"] = "not suitable"
          /\ state["suitability_reason"].kind = "No products meet minimum requirements"
          /\ state["rejected_products"] = << >>
          /\ "pricing" \notin Range(ran) /\ "agent" \notin Range(ran)
          /\ "pricing" \notin DOMAIN state
          /\ pc \in {"end", "returned"} =>
                ("proposal" \in DOMAIN state /\ state["proposal"].pricing = << >>)

\* C13 witness: the catalog is empty, the RFP has requirements, and the run
\* returned a proposal after Match, Select and Output only.
C13_Witness ==
    /\ pc = "returned"
    /\ Len(Products) = 0
    /\ Len(Requirements) > 0
    /\ ran = << "match", "select", "output" >>
    /\ state["proposal"].suitability = "not suitable"
    /\ state["proposal"].pricing = << >>

\* ------------------------------------------------------------------------
\* The pricing calculator
\* ------------------------------------------------------------------------

\* The pricing results in the state, once Pricing has run.
Pricing == Get(state, "pricing", << >>)

\* C14: every PricingResult has subtotal = base_price + total_test_cost,
\* markup_amount = subtotal * markup_percentage / 100 and total_price =
\* subtotal + markup_amount = subtotal * (1 + markup_percentage / 100), the
\* base price being its product's, and its breakdown repeats those amounts
\* (markup_amount and total_price are in hundredths).
C14_PricingArithmetic ==
    \A j \in 1..Len(Pricing) :
        LET p == Pricing[j]
            product == Products[FindProduct(Products, p.product_id)]
        IN /\ p.base_price = product.base_price
           /\ p.subtotal = p.base_price + p.total_test_cost
           /\ p.markup_amount = p.subtotal * p.markup_percentage
           /\ p.total_price = 100 * p.subtotal + p.markup_amount
           /\ p.total_price = p.subtotal * (100 + p.markup_percentage)
           /\ p.breakdown.base_price = p.base_price
           /\ p.breakdown.test_costs = p.total_test_cost
           /\ p.breakdown.subtotal = p.subtotal
           /\ p.breakdown.markup = p.markup_amount
           /\ p.breakdown.total = p.total_price

\* C14 witness: markup 25, base price 15000 and test cost 4000 give subtotal
\* 19000, markup 4750.00 and total 23750.00.
C14_Witness ==
    \E j \in 1..Len(Pricing) :
        /\ Pricing[j].markup_percentage = 25
        /\ Pricing[j].base_price = 15000
        /\ Pricing[j].total_test_cost = 4000
        /\ Pricing[j].subtotal = 19000
        /\ Pricing[j].markup_amount = 475000
        /\ Pricing[j].total_price = 2375000
        /\ Pricing[j].breakdown.total = 2375000

\* The pricing-test catalogs whose costs are numbers.
NumericTestCatalogs ==
    { t \in PricingTestCatalogs : \A i \in 1..Len(t) : t[i].cost.t = "num" }

\* The configurations that are JSON objects.
DictConfigs == { c \in Configs : c.shape = "dict" }

\* The default_tests a configuration gives the calculator.
TestsOf(config) ==
    IF config.default_tests.t = "absent" THEN DefaultTests ELSE config.default_tests.v

\* The positions of default_tests whose name has an entry in the catalog.
Resolving(default_tests, pricing_tests) ==
    { k \in 1..Len(default_tests) :
        \E i \in 1..Len(pricing_tests) : pricing_tests[i].test_name = default_tests[k] }

RECURSIVE CostOfResolved(_, _, _)
\* The sum, over the positions of K, of the cost of the entry of that name.
CostOfResolved(default_tests, pricing_tests, K) ==
    IF K = {} THEN 0
    ELSE LET k == CHOOSE x \in K : TRUE
             entry == CHOOSE e \in Range(pricing_tests) : e.test_name = default_tests[k]
         IN entry.cost.v + CostOfResolved(default_tests, pricing_tests, K \ {k})

\* The catalog without the product of the match.
WithoutProduct(products, match) ==
    SelectSeq(products, LAMBDA p : p.id # match.product_id)

\* What Pricing stored is the calculator's result under one configuration
\* and one pricing-test catalog.
StoredByPricing ==
    \E config \in Configs, pricing_tests \in PricingTestCatalogs :
        LET r == CalculatePricing(state["matches"], Products, config, pricing_tests)
        IN Pricing = IF r.raised = "" THEN r.value ELSE << >>

\* C15: for the selected match, every configuration and every pricing-test
\* catalog, the calculator raises nothing on a lookup miss: against an empty
\* catalog, or one without the match's product, it returns an empty list;
\* otherwise it returns one result whose test costs are the entries of
\* exactly the default_tests names that resolve, their costs adding up to
\* total_test_cost.
C15_LookupMissesSkipped ==
    /\ pc = "pricing" =>
          \A config \in DictConfigs, pricing_tests \in NumericTestCatalogs,
             products \in {Products, WithoutProduct(Products, state["matches"][1]), << >>} :
              LET matches == state["matches"]
                  r == CalculatePricing(matches, products, config, pricing_tests)
                  K == Resolving(TestsOf(config), pricing_tests)
              IN /\ r.raised = ""
                 /\ IF FindProduct(products, matches[1].product_id) = 0
                    THEN r.value = << >>
                    ELSE /\ Len(r.value) = 1
                         /\ Len(r.value[1].test_costs) = Cardinality(K)
                         /\ { r.value[1].test_costs[i].test_name :
                                i \in 1..Len(r.value[1].test_costs) }
                               = { TestsOf(config)[k] : k \in K }
                         /\ r.value[1].total_test_cost =
                               CostOfResolved(TestsOf(config), pricing_tests, K)
    /\ pc = "agent" => StoredByPricing

\* C15 witness: Pricing stored a result with one of two default tests
\* resolved (2500), and the calculator returns nothing for the same match
\* against the rest of the catalog.
C15_Witness ==
    /\ pc = "agent"
    /\ Len(Pricing) = 1
    /\ Len(Pricing[1].test_costs) = 1
    /\ Pricing[1].total_test_cost = 2500
    /\ Len(WithoutProduct(Products, state["matches"][1])) > 0
    /\ CalculatePricing(state["matches"], WithoutProduct(Products, state["matches"][1]),
                        DefaultConfig, CHOOSE t \in NumericTestCatalogs : Len(t) = 2)
           = [raised |-> "", value |-> << >>]

\* ------------------------------------------------------------------------
\* The matching engine on empty inputs
\* ------------------------------------------------------------------------

\* The catalog or the requirement list of the request is empty.
EmptyInput == Len(Products) = 0 \/ Len(Requirements) = 0

\* C16: on an empty catalog or an empty requirement list the engine returns
\* an empty sequence and raises nothing, whatever the configuration holds;
\* Match then stores no match and records that none was found, not that the
\* matching failed.
C16_EmptyInputsGiveEmptyResult ==
    /\ (pc = "match" /\ EmptyInput) =>
          \A config \in Configs :
              MatchProductsToRfp(state["rfp"], Products, config)
                  = [raised |-> "", value |-> << >>]
    /\ (pc = "select" /\ EmptyInput) =>
          /\ state["matches"] = << >>
          /\ state["all_matches"] = << >>
          /\ state["error"] = "No suitable products found for the RFP requirements"

\* C16 witness: the RFP has no requirement, the catalog has products, and
\* Match has stored an empty result.
C16_Witness ==
    /\ pc = "select"
    /\ Len(Requirements) = 0
    /\ Len(Products) > 0
    /\ state["all_matches"] = << >>

\* ------------------------------------------------------------------------
\* The running state
\* ------------------------------------------------------------------------

\* The fields a stage may return in its update, by the position it starts at.
Written(at) ==
    IF at = "load" THEN {"rfp_id", "rfp", "products"}
    ELSE IF at = "match" THEN {"matches", "all_matches", "error"}
    ELSE IF at = "select"
         THEN {"matches", "selection_justification", "suitability",
               "suitability_reason", "rejected_products", "error"}
    ELSE IF at = "pricing" THEN {"pricing", "error"}
    ELSE IF at \in {"agent", "sales"}
         THEN {"technical_analysis", "pricing_explanation", "sales_pitch"}
    ELSE IF at = "output" THEN {"proposal", "error"}
    ELSE {}

\* C17: every step keeps every field of the state that the stage's update
\* does not hold; after a step of Select the state holds the fields of the
\* update Select returned, with their values, and nothing else new; and
\* Select, Pricing, Agent and Output leave rfp, products and all_matches as
\* they were.
C17_MergeFieldByField ==
    [][ /\ DOMAIN state \subseteq DOMAIN state'
        /\ \A k \in DOMAIN state :
              (k \notin Written(pc)) => (k \in DOMAIN state' /\ state'[k] = state[k])
        /\ (pc = "select" /\ pc' # "raised") =>
              \E config \in Configs :
                  LET r == SelectNodeResult(state, config)
                  IN /\ r.raised = ""
                     /\ DOMAIN state' = DOMAIN state \cup DOMAIN r.update
                     /\ \A k \in DOMAIN r.update : state'[k] = r.update[k]
        /\ (pc \in {"select", "pricing", "agent", "gather", "sales", "output", "end"}) =>
              \A k \in {"rfp", "products", "all_matches"} :
                  k \in DOMAIN state /\ k \in DOMAIN state' /\ state'[k] = state[k] ]_vars

\* C17 witness: all five stages have run; the state still holds the RFP, the
\* catalog and the two results Match stored, next to the single match Select
\* kept and the fields the later stages added.
C17_Witness ==
    /\ pc = "end"
    /\ ran = << "match", "select", "pricing", "agent", "output" >>
    /\ Len(state["all_matches"]) = 2
    /\ Len(state["matches"]) = 1
    /\ Len(state["products"]) = 3
    /\ {"rfp", "pricing", "sales_pitch", "proposal"} \subseteq DOMAIN state

\* ------------------------------------------------------------------------
\* The loaders and the request boundary
\* ------------------------------------------------------------------------

\* process_rfp: the HTTP status of the response, from what run_pipeline
\* raised ("" when it returned a proposal).
HttpStatus(exception) ==
    IF exception = "" THEN 200
    ELSE IF exception = "FileNotFoundError" THEN 404
    ELSE IF exception = "ValueError" THEN 400
    ELSE 500

\* The request was aborted by a loader: nothing of the graph ran and no
\* state was made.
AbortedAtLoad == pc = "raised" /\ ran = << >> /\ state = << >>

\* A missing or malformed RFP or catalog source is fatal: the loader raises
\* FileNotFoundError or ValueError, the request is aborted before the graph
\* starts, and the request boundary answers with a failure (404 or 400).
RfpAndCatalogFatal ==
    /\ \A kind \in SourceKinds \ {"ok"} :
          /\ LoadError(kind) =
                 IF kind = "missing" THEN "FileNotFoundError" ELSE "ValueError"
          /\ HttpStatus(LoadError(kind)) \in {400, 404}
    /\ (pc = "raised" /\ ran = << >>) =>
          /\ AbortedAtLoad
          /\ raised \in {"FileNotFoundError", "ValueError"}
          /\ HttpStatus(raised) \in {400, 404}
    /\ pc = "load" => ENABLED LoadFails

Instances == {1, 2}

\* The requirement lists of the RFPs concurrent requests ask for.
ConcurrentRfps ==
    { << "firewall", "multi-factor authentication" >>,
      << "VPN", "multi-factor authentication" >>,
      << "firewall", "VPN", "encryption standard" >>,
      << "multi-factor authentication" >> }

\* The catalogs on disk while they run: CloudGuard Firewall Pro followed by
\* EdgeWall.
ConcurrentCatalogs ==
    { c \in Catalogs : Len(c) = 2 /\ c[1].id = "prod-001" /\ c[2].id = "prod-003" }

\* The configurations on disk while they run: those that set a threshold
\* other than 0 (the defaults, 0.5, and one that is no number).
ConcurrentConfigs ==
    { c \in Configs : c.matching_threshold.t = "str" \/ c.matching_threshold.v > 0 }

\* The pricing tests on disk while they run: the test catalog, or none.
ConcurrentPricingTests == { t \in PricingTestCatalogs : Len(t) # 1 }

\* A request not started yet.
Idle ==
    [pc |-> "load", request |-> << >>, state |-> << >>, agents |-> NoCalls,
     raised |-> "", ran |-> << >>]

\* run_pipeline: the initial_state it makes from the RFP and the catalog.
InitialState(requirements, products) ==
    [rfp_id |-> "rfp1",
     rfp |-> [id |-> "rfp-2024-001", title |-> "Enterprise Security Solution",
              requirements |-> requirements],
     products |-> products]

\* A variant that keeps the workflow state in one place for all requests:
\* what a request writes is what every request then reads.
StoreShared(all, i, w) ==
    [j \in DOMAIN all |-> IF j = i THEN w ELSE [all[j] EXCEPT !.state = w.state]]

\* A request's workflow instance is its own: run_pipeline's initial_state
\* and the graph it builds are local to the call.
Store(all, i, w) == [all EXCEPT ![i] = w]

\* The steps one workflow instance w can take from one suspension point to
\* the next, the data on disk being sh.
InstanceSteps(w, sh) ==
    IF w.pc = "match"
    THEN { [w EXCEPT !.state = Merge(w.state, MatchNodeUpdate(w.state, sh.config)),
                     !.pc = "select", !.ran = Append(w.ran, "match")] }
    ELSE IF w.pc = "select"
    THEN LET r == SelectNodeResult(w.state, sh.config)
             merged == Merge(w.state, r.update)
         IN IF r.raised # ""
            THEN { [w EXCEPT !.pc = "raised", !.raised = r.raised,
                             !.ran = Append(w.ran, "select")] }
            ELSE { [w EXCEPT !.state = merged, !.pc = ShouldContinue(merged),
                             !.ran = Append(w.ran, "select")] }
    ELSE IF w.pc = "pricing"
    THEN { [w EXCEPT !.state = Merge(w.state, PricingNodeUpdate(w.state, sh.config,
                                                                sh.pricing_tests)),
                     !.pc = "agent", !.ran = Append(w.ran, "pricing")] }
    ELSE IF w.pc = "agent"
    THEN IF InsufficientForAgents(w.state)
         THEN { [w EXCEPT !.state = Merge(w.state, InsufficientData),
                          !.pc = "output", !.ran = Append(w.ran, "agent")] }
         ELSE { [w EXCEPT !.agents.technical_call = "pending",
                          !.agents.pricing_call = "pending",
                          !.pc = "gather", !.ran = Append(w.ran, "agent")] }
    ELSE IF w.pc = "gather"
    THEN { [w EXCEPT !.agents.technical_call = "resolved",
                     !.agents.technical_llm_ok = llm_ok,
                     !.agents.technical_result =
                         HandleResult(AnalyzeTechnicalFit(w.state["matches"], llm_ok),
                                      TechnicalUnavailable)] :
              llm_ok \in { b \in BOOLEAN : w.agents.technical_call = "pending" } }
         \cup
         { [w EXCEPT !.agents.pricing_call = "resolved",
                     !.agents.pricing_llm_ok = llm_ok,
                     !.agents.pricing_result =
                         HandleResult(ExplainPricing(w.state["pricing"], llm_ok),
                                      PricingUnavailable)] :
              llm_ok \in { b \in BOOLEAN : w.agents.pricing_call = "pending" } }
         \cup
         { [w EXCEPT !.agents.sales_call = "pending",
                     !.agents.sales_context = w.agents.technical_result,
                     !.pc = "sales"] :
              go \in { b \in {TRUE} : GatherDone(w.agents) } }
    ELSE IF w.pc = "sales"
    THEN { LET sales_pitch ==
                   HandleResult(GenerateSalesPitch(w.state["rfp"], w.state["matches"],
                                                   w.state["pricing"],
                                                   w.agents.sales_context, llm_ok),
                                SalesUnavailable)
           IN [w EXCEPT !.agents.sales_call = "resolved",
                        !.agents.sales_llm_ok = llm_ok,
                        !.agents.sales_result = sales_pitch,
                        !.state = Merge(w.state,
                            [technical_analysis |-> w.agents.technical_result,
                             pricing_explanation |-> w.agents.pricing_result,
                             sales_pitch |-> sales_pitch]),
                        !.pc = "output"] :
              llm_ok \in BOOLEAN }
    ELSE IF w.pc = "output"
    THEN { [w EXCEPT !.state = Merge(w.state, OutputNodeUpdate(w.state)),
                     !.pc = "end", !.ran = Append(w.ran, "output")] }
    ELSE IF w.pc = "end"
    THEN { IF "proposal" \in DOMAIN w.state
           THEN [w EXCEPT !.pc = "returned"]
           ELSE [w EXCEPT !.pc = "raised", !.raised = "ValueError"] }
    ELSE {}

\* Two requests are about to arrive; the catalog, the configuration and the
\* pricing tests are on disk and stay as they are.
ConcurrentInit ==
    /\ pc = "load"
    /\ state = << >>
    /\ agents = NoCalls
    /\ raised = ""
    /\ ran = << >>
    /\ instances = [i \in Instances |-> Idle]
    /\ shared \in [products : ConcurrentCatalogs, config : ConcurrentConfigs,
                   pricing_tests : ConcurrentPricingTests]

\* Request i arrives: run_pipeline loads its RFP and the catalog and makes
\* the initial state of its workflow instance.
StartRequest(i) ==
    /\ instances[i].pc = "load"
    /\ \E requirements \in ConcurrentRfps :
          instances' = Store(instances, i,
              [Idle EXCEPT !.pc = "match", !.request = requirements,
                           !.state = InitialState(requirements, shared.products)])
    /\ UNCHANGED << pc, state, agents, raised, ran, shared >>

\* The instance of request i runs from one suspension point to the next.
Advance(i) ==
    /\ \E w \in InstanceSteps(instances[i], shared) : instances' = Store(instances, i, w)
    /\ UNCHANGED << pc, state, agents, raised, ran, shared >>

ConcurrentNext == \E i \in Instances : StartRequest(i) \/ Advance(i)

ConcurrentSpec == ConcurrentInit /\ [][ConcurrentNext]_vars

\* ------------------------------------------------------------------------
\* C19: concurrent workflow instances share no mutable state
\* ------------------------------------------------------------------------

\* What the agent stage leaves in the state of a request running alone, the
\* language model answering its three calls as llm says.
AgentsAlone(s, llm) ==
    IF InsufficientForAgents(s)
    THEN InsufficientData
    ELSE LET technical_analysis ==
                 HandleResult(AnalyzeTechnicalFit(s["matches"], llm.technical_llm_ok),
                              TechnicalUnavailable)
             pricing_explanation ==
                 HandleResult(ExplainPricing(s["pricing"], llm.pricing_llm_ok),
                              PricingUnavailable)
             sales_pitch ==
                 HandleResult(GenerateSalesPitch(s["rfp"], s["matches"], s["pricing"],
                                                 technical_analysis, llm.sales_llm_ok),
                              SalesUnavailable)
         IN [technical_analysis |-> technical_analysis,
             pricing_explanation |-> pricing_explanation,
             sales_pitch |-> sales_pitch]

\* The final state and the result of a request for the RFP with these
\* requirements when it is the only request: the nodes one after the other,
\* nothing else running in between.
RunAlone(requirements, sh, llm) ==
    LET initial_state == InitialState(requirements, sh.products)
        matched == Merge(initial_state, MatchNodeUpdate(initial_state, sh.config))
        r == SelectNodeResult(matched, sh.config)
        selected == Merge(matched, r.update)
        priced == Merge(selected,
                        PricingNodeUpdate(selected, sh.config, sh.pricing_tests))
        explained == Merge(priced, AgentsAlone(priced, llm))
        before_output == IF ShouldContinue(selected) = "output" THEN selected
                         ELSE explained
        final_state == Merge(before_output, OutputNodeUpdate(before_output))
    IN IF r.raised # ""
       THEN [state |-> matched, pc |-> "raised", raised |-> r.raised]
       ELSE [state |-> final_state,
             pc |-> IF "proposal" \in DOMAIN final_state THEN "returned"
                    ELSE "raised",
             raised |-> IF "proposal" \in DOMAIN final_state THEN ""
                        ELSE "ValueError"]

\* Request i is over: it returned its proposal or raised.
Finished(i) == instances[i].pc \in {"returned", "raised"}

\* Request i ended as it would have ended alone.
EndedAsAlone(i) ==
    LET w == instances[i]
        alone == RunAlone(w.request, shared, w.agents)
    IN /\ w.state = alone.state
       /\ w.pc = alone.pc
       /\ w.raised = alone.raised

\* C19: whatever the interleaving of two requests at their suspension
\* points, the catalog, the configuration and the pricing tests staying as
\* they are, a step of one request leaves the workflow instance of the
\* other as it was, and each request ends with the final state and the
\* result it has when it runs alone.
C19_InstancesShareNoState ==
    /\ [](\A i \in Instances : Finished(i) => EndedAsAlone(i))
    /\ [][\E i \in Instances :
              \A j \in Instances \ {i} : instances'[j] = instances[j]]_vars

\* Two requests in flight together for different RFPs have both returned:
\* the first proposes a product, the second proposes none.
C19_Witness ==
    /\ \A i \in Instances : instances[i].pc = "returned"
    /\ instances[1].request # instances[2].request
    /\ instances[1].state # instances[2].state
    /\ instances[1].state["proposal"].matches # << >>
    /\ instances[2].state["proposal"].matches = << >>

\* ------------------------------------------------------------------------
\* C20: the verdict of Select is a function of score, missing requirements
\* and threshold
\* ------------------------------------------------------------------------

\* Request i has run Select on a non-empty list of matches without raising.
Assessed(i) ==
    /\ "select" \in Range(instances[i].ran)
    /\ instances[i].raised = ""
    /\ Len(Get(instances[i].state, "all_matches", << >>)) > 0

\* The best match Select of request i looked at.
BestMatch(i) == instances[i].state["all_matches"][1]

\* C20: two runs of Select whose best matches have the same score and the
\* same missing requirements, the threshold being the same, give the same
\* suitability verdict and the same reason, whatever else differs between
\* the two RFPs and the two best matches.
C20_VerdictDeterministic ==
    \A i, j \in Instances :
        ( /\ Assessed(i)
          /\ Assessed(j)
          /\ BestMatch(i).match_score = BestMatch(j).match_score
          /\ BestMatch(i).missing_requirements = BestMatch(j).missing_requirements )
        => /\ instances[i].state["suitability"] = instances[j].state["suitability"]
           /\ instances[i].state["suitability_reason"]
                  = instances[j].state["suitability_reason"]

\* Two requests for different RFPs have run Select on best matches that
\* matched different specs with the same score and the same missing
\* requirement, and both got a verdict.
C20_Witness ==
    /\ Assessed(1)
    /\ Assessed(2)
    /\ instances[1].request # instances[2].request
    /\ BestMatch(1).matched_specs # BestMatch(2).matched_specs
    /\ BestMatch(1).match_score = BestMatch(2).match_score
    /\ BestMatch(1).missing_requirements = BestMatch(2).missing_requirements
    /\ instances[1].state["suitability"] = instances[2].state["suitability"]
    /\ instances[1].state["suitability"] # "suitable"

\* ------------------------------------------------------------------------
\* _calculate_match, one requirement at a time
\* ------------------------------------------------------------------------

\* The spec lists of the products matched: those of the catalog, a product
\* whose first spec shares a word with "encryption standard" and whose
\* second spec contains it, and a product whose specs hold the words of
\* "Firewall rule management" in the opposite order.
MatchedSpecLists ==
    { p.specs : p \in ProductPool }
    \cup { << "data encryption", "AES encryption standard" >>,
           << "central management console", "stateful firewall" >> }

\* _calculate_match is called with an RFP and a product.
CalculateInit ==
    /\ pc = "classify"
    /\ \E requirements \in RequirementLists, specs \in MatchedSpecLists :
          state = [requirements |-> requirements, specs |-> specs, k |-> 1,
                   matched_specs |-> << >>, missing_requirements |-> << >>]
    /\ agents = NoCalls
    /\ raised = ""
    /\ ran = << >>
    /\ instances = << >>
    /\ shared = << >>

\* One iteration of `for requirement in rfp.requirements`.
ClassifyRequirement ==
    /\ pc = "classify"
    /\ state.k <= Len(state.requirements)
    /\ LET acc == ClassifyOne([matched_specs |-> state.matched_specs,
                               missing_requirements |-> state.missing_requirements],
                              state.requirements[state.k], state.specs)
       IN state' = [state EXCEPT !.matched_specs = acc.matched_specs,
                                 !.missing_requirements = acc.missing_requirements,
                                 !.k = @ + 1]
    /\ UNCHANGED << pc, agents, raised, ran, concurrent >>

\* After the loop: the score, the duplicates removed from matched_specs,
\* the MatchResult returned.
ScoreMatch ==
    /\ pc = "classify"
    /\ state.k > Len(state.requirements)
    /\ state' = [match_score |-> MatchScore(Len(state.requirements),
                                            Len(state.missing_requirements)),
                 matched_specs |-> Range(state.matched_specs),
                 missing_requirements |-> state.missing_requirements,
                 requirements |-> state.requirements,
                 specs |-> state.specs]
    /\ pc' = "scored"
    /\ UNCHANGED << agents, raised, ran, concurrent >>

CalculateNext == ClassifyRequirement \/ ScoreMatch

CalculateSpec == CalculateInit /\ [][CalculateNext]_vars

\* ------------------------------------------------------------------------
\* C21: the three tiers of the classification of one requirement
\* ------------------------------------------------------------------------

\* The specs of the product that match the requirement by substring, and
\* those that match it by word overlap.
SubstringHits(requirement, specs) ==
    { i \in 1..Len(specs) : SubstringTier(Lower(requirement), Lower(specs[i])) }

OverlapHits(requirement, specs) ==
    { i \in 1..Len(specs) : TokenOverlapTier(Lower(requirement), Lower(specs[i])) }

\* The words of the requirement the fallback tier accepts: longer than 3
\* characters and found in some spec.
FallbackWords(requirement, specs) ==
    LET req_words == Split(Lower(requirement))
    IN { w \in 1..Len(req_words) :
           /\ Len(req_words[w]) > FallbackWordLen
           /\ \E i \in 1..Len(specs) : Contains(Lower(specs[i]), req_words[w]) }

\* The spec the fallback tier attributes the match to: the first spec that
\* contains the first accepted word.
FallbackSpec(requirement, specs) ==
    LET word == Split(Lower(requirement))[FirstOf(FallbackWords(requirement, specs))]
    IN FirstOf({ i \in 1..Len(specs) : Contains(Lower(specs[i]), word) })

\* The iteration just taken classified its requirement: the requirement, and
\* what the iteration appended to each list.
Classified ==
    /\ pc = "classify"
    /\ state.k <= Len(state.requirements)
    /\ state'.k = state.k + 1
ClassifiedRequirement == state.requirements[state.k]
AppendedSpecs == SubSeq(state'.matched_specs, Len(state.matched_specs) + 1,
                        Len(state'.matched_specs))
AppendedMissing == SubSeq(state'.missing_requirements, Len(state.missing_requirements) + 1,
                          Len(state'.missing_requirements))

\* C21 as stated: the substring tier is tried on every spec before the
\* word-overlap tier decides anything, so when some spec matches the
\* requirement by substring the match goes to the first such spec; word
\* overlap decides only when no spec matches by substring, the fallback tier
\* only when no spec matches by either, and the requirement is missing iff
\* all three fail.
C21_TierByTier ==
    [][Classified =>
          LET r == ClassifiedRequirement
              sub == SubstringHits(r, state.specs)
              tok == OverlapHits(r, state.specs)
              fb == FallbackWords(r, state.specs)
          IN /\ sub # {} => AppendedSpecs = << state.specs[FirstOf(sub)] >>
             /\ (sub = {} /\ tok # {}) => AppendedSpecs = << state.specs[FirstOf(tok)] >>
             /\ (sub = {} /\ tok = {} /\ fb # {}) =>
                    AppendedSpecs = << state.specs[FallbackSpec(r, state.specs)] >>
             /\ AppendedMissing = << r >> <=> (sub = {} /\ tok = {} /\ fb = {})
             /\ AppendedMissing # << r >> => AppendedMissing = << >>]_vars

\* C21: the specs are tried in their order and the first spec that matches
\* the requirement wins, by substring or, if not by substring, by word
\* overlap; word overlap with that spec decides even when a later spec
\* matches by substring. The fallback tier runs only when no spec matched by
\* either test, and attributes the match to the first spec containing the
\* first requirement word longer than 3 characters found in a spec. The
\* requirement is recorded as missing iff all three fail, and exactly one of
\* the two lists grows by one. With requirements ["firewall","VPN"] and specs
\* ["next-generation firewall","VPN support"] both match by substring, the
\* score is 1.0 and nothing is missing.
C21_FirstMatchingSpecWins ==
    /\ [][Classified =>
             LET r == ClassifiedRequirement
                 sub == SubstringHits(r, state.specs)
                 tok == OverlapHits(r, state.specs)
                 fb == FallbackWords(r, state.specs)
             IN /\ (sub \cup tok) # {} =>
                       AppendedSpecs = << state.specs[FirstOf(sub \cup tok)] >>
                /\ ((sub \cup tok) = {} /\ fb # {}) =>
                       AppendedSpecs = << state.specs[FallbackSpec(r, state.specs)] >>
                /\ AppendedMissing = << r >> <=> (sub = {} /\ tok = {} /\ fb = {})
                /\ AppendedMissing # << r >> => AppendedMissing = << >>
                /\ Len(AppendedSpecs) + Len(AppendedMissing) = 1]_vars
    /\ []((/\ pc = "scored"
           /\ state.requirements = << "firewall", "VPN" >>
           /\ state.specs = << "next-generation firewall", "VPN support" >>)
          => /\ SubstringHits("firewall", state.specs) = {1}
             /\ SubstringHits("VPN", state.specs) = {2}
             /\ state.match_score = 100
             /\ state.matched_specs = { "next-generation firewall", "VPN support" }
             /\ state.missing_requirements = << >>)

\* C21 witness: the loop classified "encryption standard" against a product
\* whose first spec matches it by word overlap only and whose second spec
\* matches it by substring, and the match went to the first spec.
C21_Witness ==
    /\ pc = "classify"
    /\ state.k > 1
    /\ state.requirements[state.k - 1] = "encryption standard"
    /\ 1 \notin SubstringHits("encryption standard", state.specs)
    /\ 1 \in OverlapHits("encryption standard", state.specs)
    /\ 2 \in SubstringHits("encryption standard", state.specs)
    /\ state.matched_specs[Len(state.matched_specs)] = state.specs[1]

\* ------------------------------------------------------------------------
\* select_node: the assessment of the best match, step by step
\* ------------------------------------------------------------------------

\* Longest list of missing requirements of a best match.
MaxMissing == 4

\* Requirements a best match may miss: three that name a critical keyword,
\* one of them written in two casings, and one that names none.
MissingVocab ==
    { "Encryption Standard", "encryption standard", "multi-factor authentication",
      "SOC2 compliance", "VPN" }

\* The lists best_match.missing_requirements may be.
MissingLists == DistinctSeqs(MissingVocab, MaxMissing)

\* The values best_match.match_score may have, in hundredths.
Scores == 0..100

\* select_node is about to assess a best match at or above the threshold.
AssessInit ==
    /\ pc = "critical"
    /\ \E score \in Scores, missing_reqs \in MissingLists :
          state = [score |-> score, missing_reqs |-> missing_reqs]
    /\ agents = NoCalls
    /\ raised = ""
    /\ ran = << >>
    /\ instances = << >>
    /\ shared = << >>

\* `has_critical, critical_items = has_critical_missing_requirements(missing_reqs)`
CheckCritical ==
    /\ pc = "critical"
    /\ LET crit == HasCriticalMissingRequirements(state.missing_reqs)
       IN state' = Merge(state, [has_critical |-> crit.has, critical_items |-> crit.items])
    /\ pc' = "assess"
    /\ UNCHANGED << agents, raised, ran, concurrent >>

\* The if/elif chain that sets suitability and suitability_reason.
ClassifySuitability ==
    /\ pc = "assess"
    /\ LET verdict == AssessSuitability(state.score, state.has_critical,
                                        state.critical_items)
       IN state' = Merge(state, [suitability |-> verdict.suitability,
                                 suitability_reason |-> verdict.reason])
    /\ pc' = "assessed"
    /\ UNCHANGED << agents, raised, ran, concurrent >>

AssessNext == CheckCritical \/ ClassifySuitability

AssessSpec == AssessInit /\ [][AssessNext]_vars

\* ------------------------------------------------------------------------
\* C22: the critical-gap flag and the requirements its reason lists
\* ------------------------------------------------------------------------

\* Whether a requirement, case-folded, contains a critical keyword.
IsCritical(requirement) ==
    \E i \in 1..Len(critical_keywords) : Contains(Lower(requirement), critical_keywords[i])

RECURSIVE CriticalOf(_)
\* The critical requirements of a list, as written and in the list's order.
CriticalOf(missing_reqs) ==
    IF Len(missing_reqs) = 0 THEN << >>
    ELSE (IF IsCritical(Head(missing_reqs)) THEN << Head(missing_reqs) >> ELSE << >>)
         \o CriticalOf(Tail(missing_reqs))

\* C22 as stated: the flag is set iff some missing requirement, case-folded,
\* contains a critical keyword, and the reason then lists the first 3 such
\* requirements at most, each in its own original casing and in the order
\* of the missing requirements; with score 0.5 and "encryption standard"
\* missing the verdict is "not suitable" and the reason cites it.
C22_CriticalGapListsOwnCasing ==
    /\ pc \in {"assess", "assessed"} =>
          /\ state.has_critical <=>
                 \E k \in 1..Len(state.missing_reqs) : IsCritical(state.missing_reqs[k])
          /\ state.has_critical =>
                 state.critical_items =
                     Join(Take(CriticalOf(state.missing_reqs), CriticalShown), ", ")
    /\ (pc = "assessed" /\ state.score = 50
            /\ "encryption standard" \in Range(state.missing_reqs)) =>
          /\ state.suitability = "not suitable"
          /\ state.suitability_reason.kind = "Missing critical requirements"
          /\ (Len(state.missing_reqs) = 1 =>
                  state.suitability_reason.items = "encryption standard")

\* ------------------------------------------------------------------------
\* C23: the rejection list of Select
\* ------------------------------------------------------------------------

\* Select has run and its update is merged.
SelectMerged == "select" \in Range(ran) /\ "rejected_products" \in DOMAIN state

\* The rejection list holds one entry for each match beyond the first, in
\* the order of the matches, with that match's name and score and a reason
\* naming its first two missing requirements at most.
RejectsAllBeyondFirst ==
    LET all_matches == state["all_matches"]
        rejected == state["rejected_products"]
    IN /\ Len(rejected) = Len(all_matches) - 1
       /\ \A j \in 1..Len(rejected) :
             LET match == all_matches[j + 1]
             IN /\ rejected[j].product_name = match.product_name
                /\ rejected[j].match_score = match.match_score
                /\ rejected[j].reason.score = match.match_score
                /\ rejected[j].reason.missing =
                       Join(SubSeq(match.missing_requirements, 1,
                                   IF Len(match.missing_requirements) < RejectedShown
                                   THEN Len(match.missing_requirements)
                                   ELSE RejectedShown), ", ")

\* C23 as stated: whenever Select ran on a non-empty match list, every match
\* beyond the first has its entry in the rejection list.
C23_RejectsEveryNonSelected ==
    (SelectMerged /\ Len(state["all_matches"]) > 0) => RejectsAllBeyondFirst

\* C23: when Select selects a match, the selection is the first match, the
\* rejection list has one entry for every match beyond the first, in the
\* same order, each with that match's product name and score and a reason
\* naming at most 2 of its own missing requirements, and the selected
\* product is not in the list; when Select selects nothing (no match, or
\* the best match below the threshold) the rejection list is empty.
C23_RejectsBeyondFirstWhenSelected ==
    SelectMerged =>
        IF Len(state["matches"]) > 0
        THEN /\ state["matches"] = << state["all_matches"][1] >>
             /\ RejectsAllBeyondFirst
             /\ \A j \in 1..Len(state["rejected_products"]) :
                   state["rejected_products"][j].product_name
                       # state["matches"][1].product_name
        ELSE state["rejected_products"] = << >>

\* C23 witness: Select selected a match and rejected two others, one of them
\* missing three requirements, of which its reason names two.
C23_Witness ==
    /\ SelectMerged
    /\ Len(state["matches"]) = 1
    /\ Len(state["rejected_products"]) = 2
    /\ \E j \in 2..3 :
          /\ Len(state["all_matches"][j].missing_requirements) = 3
          /\ state["rejected_products"][j - 1].reason.missing =
                 Join(SubSeq(state["all_matches"][j].missing_requirements, 1, 2), ", ")

\* ------------------------------------------------------------------------
\* C24: the last branch of the suitability classification
\* ------------------------------------------------------------------------

\* C24: whatever the score and the critical-gap flag, the classification
\* ends in one of its first four branches: no verdict carries the reason of
\* the final else branch, "Moderate match with some gaps".
C24_LastRuleUnreachable ==
    /\ pc = "assess" =>
          \A has_critical \in BOOLEAN :
              AssessSuitability(state.score, has_critical, state.critical_items).reason.kind
                  # "Moderate match with some gaps"
    /\ pc = "assessed" =>
          /\ state.suitability_reason.kind # "Moderate match with some gaps"
          /\ \/ state.score >= ModerateScore /\ ~state.has_critical
             \/ state.has_critical
             \/ state.score < ModerateScore

\* C24 witness: a score between 0.6 and 0.8 with a critical gap, the case
\* the final branch reads as if it were meant for, was assessed and fell to
\* the critical-gap rule.
C24_Witness ==
    /\ pc = "assessed"
    /\ state.score = 70
    /\ state.has_critical
    /\ state.suitability = "not suitable"
    /\ state.suitability_reason.kind = "Missing critical requirements"

\* ------------------------------------------------------------------------
\* C25: the branch after Select follows the selection, not the verdict
\* ------------------------------------------------------------------------

\* Select judged its best match not suitable for a critical gap.
CriticalGapVerdict ==
    /\ SelectMerged
    /\ state["suitability"] = "not suitable"
    /\ state["suitability_reason"].kind = "Missing critical requirements"

\* The workflow is at Output or past it without having run Pricing.
SkippedToOutput ==
    /\ SelectMerged
    /\ pc \in {"output", "end", "returned"}
    /\ "pricing" \notin Range(ran)

\* C25: when Select classifies a best match at or above the threshold as not
\* suitable because of a critical gap, the selection still holds that match
\* and the workflow goes on to Pricing and then Agent: it is never at Output
\* without both having run. The workflow skips from Select to Output only
\* with an empty selection, and the verdict is then "not suitable".
C25_BranchFollowsSelection ==
    /\ CriticalGapVerdict =>
          /\ state["matches"] = << state["all_matches"][1] >>
          /\ pc \in {"pricing", "agent", "gather", "sales", "output", "end", "returned"}
          /\ pc # "pricing" => (Len(ran) >= 3 /\ ran[3] = "pricing")
          /\ pc \notin {"pricing", "agent"} => (Len(ran) >= 4 /\ ran[4] = "agent")
    /\ SkippedToOutput =>
          /\ state["matches"] = << >>
          /\ state["suitability"] = "not suitable"
          /\ "agent" \notin Range(ran)

\* C25 witness: a run is over in which Select judged the best match not
\* suitable for a critical gap and Pricing and Agent ran for that match.
C25_Witness ==
    /\ CriticalGapVerdict
    /\ pc = "returned"
    /\ ran = << "match", "select", "pricing", "agent", "output" >>
    /\ Len(state["pricing"]) = 1
    /\ state["pricing"][1].product_id = state["matches"][1].product_id
    /\ state["proposal"].suitability = "not suitable"

\* ------------------------------------------------------------------------
\* C26: one threshold at both loads
\* ------------------------------------------------------------------------

\* The state Match started from: what run_pipeline put in it.
BeforeMatch == [rfp_id |-> state["rfp_id"], rfp |-> state["rfp"],
                products |-> state["products"]]

\* Match may have loaded this configuration: its update for it is the one
\* merged in the state.
LoadedByMatch(config) ==
    /\ "all_matches" \in DOMAIN state
    /\ LET update == MatchNodeUpdate(BeforeMatch, config)
       IN /\ state["all_matches"] = update.all_matches
          /\ Get(state, "error", "") = Get(update, "error", "")

\* C26: when Select loads a configuration with which Match may have
\* produced the match list, hence the same matching_threshold, Select does
\* not take its below-threshold branch: every match Match emitted scores at
\* or above that threshold, and a non-empty match list gives a non-empty
\* selection holding the first match.
C26_SameThresholdNeverBelow ==
    pc = "select" =>
        \A config \in Configs :
            LoadedByMatch(config) =>
                LET r == SelectNodeResult(state, config)
                    threshold == SelectThreshold(config)
                IN /\ r.raised = ""
                   /\ \A j \in 1..Len(state["matches"]) :
                         /\ threshold.t = "num"
                         /\ state["matches"][j].match_score >= threshold.v
                   /\ r.update.suitability_reason.kind # "Best match score below threshold"
                   /\ Len(state["matches"]) > 0 =>
                          r.update.matches = << state["matches"][1] >>

\* C26 witness: Match, with a threshold of 0.5, emitted a best match scoring
\* exactly 0.5 and left a product out, and Select is about to load the
\* configuration.
C26_Witness ==
    /\ pc = "select"
    /\ Len(state["matches"]) > 0
    /\ Len(state["matches"]) < Len(state["products"])
    /\ state["matches"][1].match_score = 50
    /\ \E config \in Configs :
          /\ config.matching_threshold = [t |-> "num", v |-> 50]
          /\ LoadedByMatch(config)
          /\ SelectNodeResult(state, config).update.matches = << state["matches"][1] >>

\* ------------------------------------------------------------------------
\* C27: the sales-pitch call waits for the two concurrent calls
\* ------------------------------------------------------------------------

\* The Agent stage is over: the workflow is at Output or past it.
AgentStageOver == pc \in {"output", "end", "returned"}

\* C27: the sales-pitch call is issued only when the technical-fit call and
\* the pricing-explanation call have both resolved, by an answer or by a
\* failure, and the Agent stage that issued them is over only when all three
\* have resolved; in a run where one of the two stays pending for ever the
\* sales-pitch call is never issued and the Agent stage is never over.
C27_SalesWaitsForBoth ==
    /\ [](agents.sales_call # "not issued" =>
             /\ agents.technical_call = "resolved"
             /\ agents.pricing_call = "resolved")
    /\ []((AgentStageOver /\ agents.technical_call # "not issued") =>
             /\ agents.technical_call = "resolved"
             /\ agents.pricing_call = "resolved"
             /\ agents.sales_call = "resolved")
    /\ (<>[](agents.technical_call = "pending") \/ <>[](agents.pricing_call = "pending"))
           => [](agents.sales_call = "not issued" /\ ~AgentStageOver)

\* C27 witness: the sales-pitch call is pending, issued after the
\* technical-fit call failed and the pricing-explanation call answered.
C27_Witness ==
    /\ pc = "sales"
    /\ agents.sales_call = "pending"
    /\ agents.technical_call = "resolved" /\ ~agents.technical_llm_ok
    /\ agents.pricing_call = "resolved" /\ agents.pricing_llm_ok
    /\ agents.sales_context = agents.technical_result

\* ------------------------------------------------------------------------
\* C28: a selected product without pricing
\* ------------------------------------------------------------------------

\* Pricing has run for a selected product and left the pricing list empty.
SelectedButUnpriced ==
    /\ "pricing" \in Range(ran)
    /\ Len(state["matches"]) = 1
    /\ state["pricing"] = << >>

\* C28: when Pricing leaves the pricing list empty while a product is
\* selected, the Agent stage issues no call to the language model and sets
\* the three texts to its fixed placeholders, and Output builds a proposal
\* that holds the selected match, an empty pricing list, the placeholders
\* and a total value of 0; the run returns it.
C28_UnpricedSelectionStillProposed ==
    SelectedButUnpriced =>
        /\ agents = NoCalls
        /\ pc \in {"agent", "output", "end", "returned"}
        /\ "agent" \in Range(ran) =>
              /\ state["technical_analysis"] = "Insufficient data for technical analysis."
              /\ state["pricing_explanation"] = "Insufficient data for pricing explanation."
              /\ state["sales_pitch"] = "Unable to generate proposal due to insufficient data."
        /\ "output" \in Range(ran) =>
              /\ "proposal" \in DOMAIN state
              /\ state["proposal"].matches = state["matches"]
              /\ state["proposal"].pricing = << >>
              /\ state["proposal"].total_value = 0
              /\ state["proposal"].technical_analysis = state["technical_analysis"]
              /\ state["proposal"].pricing_explanation = state["pricing_explanation"]
              /\ state["proposal"].sales_pitch = state["sales_pitch"]

\* C28 witness: a run returned a proposal for a selected product whose
\* pricing failed.
C28_Witness ==
    /\ SelectedButUnpriced
    /\ pc = "returned"
    /\ ran = << "match", "select", "pricing", "agent", "output" >>
    /\ "error" \in DOMAIN state
    /\ state["proposal"].matches = << state["all_matches"][1] >>
    /\ state["proposal"].total_value = 0

\* ------------------------------------------------------------------------
\* C29: the selection, the pricing list and the best score
\* ------------------------------------------------------------------------

\* C29: once the update of Select is merged, the selection has at most one
\* element and the pricing list has at most as many elements as the
\* selection; a non-empty selection holds the first element of all_matches,
\* and no element of all_matches scores strictly higher.
C29_SelectionIsBestAndSingle ==
    SelectMerged =>
        LET matches == state["matches"]
            all_matches == state["all_matches"]
            pricing == Get(state, "pricing", << >>)
        IN /\ Len(matches) <= 1
           /\ Len(pricing) <= Len(matches)
           /\ Len(matches) = 1 =>
                 /\ Len(all_matches) >= 1
                 /\ matches[1] = all_matches[1]
                 /\ \A j \in 1..Len(all_matches) :
                       all_matches[j].match_score <= matches[1].match_score

\* C29 witness: the selected product is priced, and it is not the first
\* product of the catalog: a product ahead of it in the catalog scored
\* strictly lower and is among the matches.
C29_Witness ==
    /\ SelectMerged
    /\ Len(state["matches"]) = 1
    /\ Len(Get(state, "pricing", << >>)) = 1
    /\ state["matches"][1].product_id # state["products"][1].id
    /\ \E j \in 2..Len(state["all_matches"]) :
          /\ state["all_matches"][j].product_id = state["products"][1].id
          /\ state["all_matches"][j].match_score < state["matches"][1].match_score

\* ------------------------------------------------------------------------
\* C30: each stage at most once, in the order of the graph
\* ------------------------------------------------------------------------

\* The stages of a run that went through Pricing, and of one that skipped
\* to Output.
FullRun == << "match", "select", "pricing", "agent", "output" >>

ShortRun == << "match", "select", "output" >>

\* Whether p is an initial part of q.
IsPrefix(p, q) == Len(p) <= Len(q) /\ p = SubSeq(q, 1, Len(p))

\* C30: the stages that have run are an initial part of Match, Select,
\* Pricing, Agent, Output or of Match, Select, Output, so each stage runs at
\* most once, Agent only after Pricing, and nothing after Output; Select
\* starts only with the update of Match merged, and Pricing runs only with
\* a non-empty selection.
C30_StagesOnceInOrder ==
    /\ IsPrefix(ran, FullRun) \/ IsPrefix(ran, ShortRun)
    /\ pc = "select" =>
          /\ ran = << "match" >>
          /\ "matches" \in DOMAIN state /\ "all_matches" \in DOMAIN state
    /\ pc = "pricing" => (ran = << "match", "select" >> /\ Len(state["matches"]) > 0)
    /\ "pricing" \in Range(ran) => Len(state["matches"]) > 0
    /\ pc = "agent" => ran = << "match", "select", "pricing" >>
    /\ "output" \in Range(ran) => pc \in {"end", "returned", "raised"}

\* C30 witness: the five stages have run, each once, the three agent calls
\* resolved in between, and the graph is at its end.
C30_Witness ==
    /\ pc = "end"
    /\ ran = FullRun
    /\ agents.sales_call = "resolved"
    /\ "proposal" \in DOMAIN state
====
